---- MODULE Spec2Model ----
(***************************************************************************)
(* The stdio bridge of rust-native/src/main.rs as a state machine: the     *)
(* command loop of main, the dispatcher handle_command with one branch per *)
(* command, init_discord_sdk, cleanup, and the native service as the       *)
(* environment that fires the registered callbacks and free functions.     *)
(*                                                                         *)
(* Time is counted in milliseconds of sleep: a poll loop                   *)
(*     while start.elapsed() < D { RunCallbacks; if done {break}; sleep I } *)
(* advances `elapsed` by I per iteration.  The deadlines D of the source   *)
(* are scaled to MsPerSec model milliseconds per second, the sleeps I are  *)
(* kept.  Writes to stdout are taken to succeed (a failed write is the     *)
(* host closing the pipe).                                                 *)
(*                                                                         *)
(* Spec: callbacks and free functions run on the command thread inside     *)
(* Discord_RunCallbacks, or inside Discord_Client_Drop; main.rs calls      *)
(* Discord_RunCallbacks from its loops and once in some of the branches    *)
(* that answer from direct native calls.                                   *)
(* SpecThreaded: a Ready session in which the service runs the callbacks   *)
(* on a thread of its own (main.rs calls Discord_SetFreeThreaded), step by *)
(* step against the fetch handlers and the drain of MESSAGE_EVENTS.        *)
(* SpecImproved: rust-native/src/main_improved.rs, its command thread, the *)
(* background thread that calls Discord_RunCallbacks every 10 ms, and the  *)
(* callbacks, which run inside that call or on a thread of the service.    *)
(* SpecImprovedFair adds the scheduling under which handlers progress.     *)
(* SpecLib: the exported C functions of rust-native/src/lib.rs over        *)
(* DiscordClientWrapper.                                                   *)
(* SpecLimit: the parse of args.limit in the fetch handlers of main.rs,   *)
(* with 64-bit integers kept as 16-bit limbs.                              *)
(***************************************************************************)
EXTENDS Integers, Sequences, FiniteSets, TLC

\* ---------------------------------------------------------------- bounds
MaxRequests == 2
MsPerSec == 7
MaxEvents == 1
MaxThreadRequests == 2
MaxThreadEvents == 2
MaxImprovedRequests == 3
MaxStatusReports == 2
MaxLibClients == 2

\* ------------------------------------------------------ program constants
DISCORD_CLIENT_STATUS_READY == 3

\* The host numbers its Requests 1, 2, 3, ...
Ids == 1..MaxRequests

\* Commands of the handler table of handle_command, and one name outside it.
SessionCommands ==
  {"get_guilds", "get_guild_channels", "send_message", "send_dm",
   "get_lobby_messages", "get_user_messages", "get_message",
   "get_relationships", "create_lobby", "create_or_join_lobby",
   "get_lobby_ids", "get_lobby", "leave_lobby", "send_lobby_message",
   "set_mute", "set_deaf", "get_mute_status", "get_deaf_status",
   "connect_lobby_voice", "disconnect_lobby_voice", "set_activity"}

\* Commands whose handler registers a callback (or waits for a flag) and polls.
PollCommands ==
  {"get_guilds", "get_guild_channels", "send_message", "send_dm",
   "get_lobby_messages", "get_user_messages", "create_lobby",
   "create_or_join_lobby", "send_lobby_message", "leave_lobby",
   "set_activity", "connect_lobby_voice", "disconnect_lobby_voice"}

Commands ==
  SessionCommands \cup {"initialize", "disconnect", "get_message_events", "ping", "bogus"}

\* Shapes of the args value of a Request:
\*   none    args absent (or null)
\*   empty   args is an object without the fields the handler looks up
\*   bad     the id field is present but not a decimal u64 string (or is 0 / "")
\*   partial the id field is valid, the second field (content) is absent
\*   nul     all fields valid, content holds a NUL byte
\*   ok      all fields the handler looks up are present and valid
\* and for initialize:
\*   noappid token longer than 20 bytes, app_id absent or unparsable
\*   stored  token longer than 20 bytes (not the marker), app_id valid
\*   auth    token "SDK_AUTH_REQUIRED" (or 20 bytes or fewer), app_id valid
ArgsOf(c) ==
  CASE c = "initialize" -> {"none", "empty", "noappid", "stored", "auth"}
    [] c \in {"send_message", "send_dm"} -> {"none", "empty", "bad", "partial", "nul", "ok"}
    [] c = "send_lobby_message" -> {"none", "bad", "partial", "ok"}
    [] c \in {"get_guild_channels", "get_lobby_messages", "get_user_messages",
              "get_message", "connect_lobby_voice", "disconnect_lobby_voice"}
         -> {"none", "empty", "bad", "ok"}
    [] c \in {"get_lobby", "leave_lobby"} -> {"none", "bad", "ok"}
    [] c \in {"create_lobby", "create_or_join_lobby", "set_mute", "set_deaf", "set_activity"}
         -> {"none", "empty", "ok"}
    [] OTHER -> {"none"}

Request == UNION {[id : Ids, command : {c}, args : ArgsOf(c)] : c \in Commands}

\* What one read of stdin can yield besides a line that decodes as a Request:
\*   blank    a line that is empty after trim
\*   garbage  a line that is not JSON
\*   noid     JSON without a u64 id or without a string command
\*   badutf8  bytes that are not UTF-8: reader.lines() yields Err
BadLines == {"blank", "garbage", "noid", "badutf8"}

NoReq == [id |-> 0, command |-> "", args |-> "none"]
NoResult == [kind |-> "null", data |-> 0]
NoResp == [id |-> 0, success |-> FALSE, result |-> NoResult, error |-> "null"]

Res(k, d) == [kind |-> k, data |-> d]

\* struct Response, built at the end of handle_command (or by an early return)
Response(r, success, result, error) ==
  [id |-> r.id, success |-> success, result |-> result, error |-> error]

Ok(r, result) == Response(r, TRUE, result, "null")

\* A failure that carries a result value next to its error.
FailKeepsResult(r, error) == Response(r, FALSE, Res("status", 0), error)

Fail(r, error) == Response(r, FALSE, NoResult, error)

\* ------------------------------------------------------------------ state
VARIABLES
  pc,              \* where the command thread is: "read" (top of the for loop),
                   \* a poll loop, "write" (handle_command has returned resp),
                   \* or "exited" / "aborted"
  req,             \* the Request being handled (NoReq between commands)
  resp,            \* the Response handle_command returned for req
  nDecoded,        \* Requests decoded so far
  nResp,           \* Responses written so far
  CLIENT_PTR,      \* static CLIENT_PTR: 0 or the address of the boxed client
  TOKEN,           \* static TOKEN: TRUE iff Some(token)
  INITIALIZED,     \* static INITIALIZED
  CURRENT_STATUS,  \* static CURRENT_STATUS, written by status_callback
  MESSAGE_EVENTS,  \* static MESSAGE_EVENTS, the ids pushed by on_message_created
  clients,         \* native clients: id -> [alive, statusCb, messageCb]
  tokens,          \* Completion Tokens: id -> record, see NewToken
  cur,             \* id of the token the running handler polls (0: none)
  elapsed,         \* start.elapsed() of the running poll loop, in ms
  called,          \* a function of the native library was called for req
  last_status,     \* local of the ready-wait loop of init_discord_sdk
  error_4004_seen, \* local of the ready-wait loop of init_discord_sdk
  newClient,       \* local `client` of init_discord_sdk (0 outside it)
  sdk_access_token,\* local of init_discord_sdk: 0 none, 1 shorter than 20 bytes, 2 valid
  memfault,        \* user data was used after it was freed, or freed twice
  line,            \* what the last read of stdin yielded
  loopExit,        \* how the poll loop of req ended: "none" (no loop), "done"
                   \* (break on the flag), "expired" (deadline passed, flag not
                   \* set) or "expired_done" (deadline passed, flag set)
  lateCallback,    \* while req was handled, a callback ran for an operation
                   \* whose handler had returned before
  svcOutcome,      \* what the service reported for the operation of req:
                   \* "none" (callback not fired) | "ok" | "fail"
  readyReported,   \* while req (an initialize) was handled, status_callback ran
                   \* with a status >= 3 for the client that call created
  regressed,       \* while req (an initialize) was handled, status_callback ran
                   \* with status 0 when CURRENT_STATUS was 2
  svcThread,       \* the callback the service's own thread is inside of, see Idle
  fetched,         \* local fetched_channels / fetched_messages of a fetch handler:
                   \* the clone of the payload cell (NotFetched before the clone)
  events,          \* local `events` of get_message_events: what it drained
  nEvents,         \* message-created events the service has raised so far
  delivered,       \* the events the Responses of get_message_events have
                   \* carried so far, in the order they were written
  \* ---- main_improved.rs
  STATE_,          \* static STATE: None or Some(State {client, status, initialized})
  stateLock,       \* who holds the Mutex of STATE: "free" | "cmd" | "bg"
  ipc,             \* where the command thread of main_improved.rs is
  ireq,            \* the Request it handles
  iresp,           \* the Response handle_command returned for ireq
  inDecoded,       \* Requests decoded so far
  inResp,          \* Responses written so far
  client_ptr,      \* local client_ptr of guilds_cmd / channels_cmd, `client` of init_discord
  ielapsed,        \* start.elapsed() / timeout.elapsed() of the running loop
  iresult,         \* local `result` of guilds_cmd / channels_cmd: the cloned list
  bgpc,            \* where the background callback processor is
  iclients,        \* native clients not dropped: id -> [statusCb, connected, reported]
  itokens,         \* Data boxes of guilds_cmd / channels_cmd: id -> record
  icur,            \* id of the Data the running handler waits for (0: none)
  cbThread,        \* the callback in progress and the thread running it, see NoCallback
  freeThreaded,    \* Discord_SetFreeThreaded has been called
  pumped,          \* the background thread has called Discord_RunCallbacks
  usedDropped,     \* a native call received a client that had been dropped
  nReports,        \* status changes the service has reported so far
  \* ---- lib.rs
  wrappers,        \* DiscordClientWrapper boxes handed out: handle -> native client
  natives,         \* native clients: id -> number of discord_client_destroy calls
  lcall,           \* the last call of an exported function and what it returned
  nCreated,        \* create_discord_client calls so far
  \* ---- limit of get_lobby_messages / get_user_messages
  lcmd,            \* the command
  limitArg,        \* args["limit"] as the host sent it
  limit            \* local `limit`: the i32 handed to the service

vars == <<pc, req, resp, nDecoded, nResp, CLIENT_PTR, TOKEN, INITIALIZED,
          CURRENT_STATUS, MESSAGE_EVENTS, clients, tokens, cur, elapsed, called,
          last_status, error_4004_seen, newClient, sdk_access_token, memfault,
          line, loopExit, lateCallback, svcOutcome, readyReported, regressed,
          svcThread, fetched, events, nEvents, delivered,
          STATE_, stateLock, ipc, ireq, iresp, inDecoded, inResp, client_ptr, ielapsed,
          iresult, bgpc, iclients, itokens, icur, cbThread, freeThreaded, pumped, usedDropped,
          nReports, wrappers, natives, lcall, nCreated, lcmd, limitArg, limit>>

session == <<CLIENT_PTR, TOKEN, INITIALIZED>>
loopLocals == <<last_status, error_4004_seen, newClient, sdk_access_token>>
threadVars == <<svcThread, fetched, events, nEvents, delivered>>
mainVars == <<pc, req, resp, nDecoded, nResp, session, CURRENT_STATUS, MESSAGE_EVENTS,
              clients, tokens, cur, elapsed, called, loopLocals, memfault, line, loopExit,
              lateCallback, svcOutcome, readyReported, regressed, threadVars>>
improvedVars == <<STATE_, stateLock, ipc, ireq, iresp, inDecoded, inResp, client_ptr,
                  ielapsed, iresult, bgpc, iclients, itokens, icur, cbThread, freeThreaded,
                  pumped, usedDropped, nReports>>
libVars == <<wrappers, natives, lcall, nCreated>>
limitVars == <<lcmd, limitArg, limit>>
\* The variables of the other binaries and of the library, which main.rs
\* does not share.
otherVars == <<improvedVars, libVars, limitVars>>

\* The service's thread is in no callback.
Idle == [t |-> 0, at |-> "idle", o |-> "none"]

NotFetched == -1

\* -------------------------------------------------------- Completion Token
\* One record per in-flight operation: the Arc<Mutex<..>> cells the handler
\* and the callback share, and the Box handed to the service as user data.
\*   op      the command (or init step) that created it
\*   client  the native client the operation was started on (0: not started)
\*   reg     the service holds (callback, free_fn, user_data) and has not
\*           fired the callback yet
\*   box     "live" | "freed": the Box::into_raw allocation
\*   held    the handler still holds its Arc clones (it is in its poll loop)
\*   done    the completion flag
\*   ok      what the callback recorded about the result (success cell)
\*   val     the payload cell: item count, or the id the callback stored
\*   err     the error cell (get_guilds)
\*   outcome what the service reported when it fired the callback
NewToken(op, client, reg) ==
  [op |-> op, client |-> client, reg |-> reg, box |-> "live", held |-> TRUE,
   done |-> FALSE, ok |-> FALSE, val |-> 0, err |-> "", outcome |-> "none"]

FreshId(f) == CHOOSE i \in 1..(Cardinality(DOMAIN f) + 1) : i \notin DOMAIN f

Put(f, k, v) == [x \in DOMAIN f \cup {k} |-> IF x = k THEN v ELSE f[x]]
Drop(f, ks) == [x \in DOMAIN f \ ks |-> f[x]]

\* Tokens of operations whose handler has returned while the service still
\* holds the registration.
Abandoned == {t \in DOMAIN tokens : tokens[t].reg /\ ~tokens[t].held}

\* C8 mutant: the timeout branch of the handler rebuilds the Box and drops it.
AbandonBoxFreed(box) == "freed"

\* What a handler does to the Box it handed out when it returns: nothing (no
\* handler calls Box::from_raw, only the free functions do).
AbandonBox(box) == box

\* The handler returns: its Arc clones are dropped.  A token nobody refers to
\* any more (no registration left at the service) ceases to exist.
Release(f, t) ==
  IF t \notin DOMAIN f THEN f
  ELSE IF f[t].reg
       THEN [f EXCEPT ![t] = [NewToken(f[t].op, f[t].client, TRUE)
                                EXCEPT !.held = FALSE, !.box = AbandonBox(f[t].box)]]
       ELSE Drop(f, {t})

\* The free functions of main.rs: all rebuild the Box and drop it, except
\* msg_free of send_message and activity_free of set_activity, whose body is
\* empty.
FreeIsNoop(op) == op \in {"send_message", "set_activity"}

FreeBox(op, box) == IF FreeIsNoop(op) THEN box ELSE "freed"


\* ------------------------------------------------- handle_command: checks
NotInit == "SDK not initialized"

\* The checks a branch of handle_command makes before it touches the native
\* library, in the order the branch makes them; "" when all pass.  `init` is
\* the value read from INITIALIZED.
ArgError(c, a) ==
  CASE c = "get_guild_channels" ->
         IF a = "none" THEN "Missing args" ELSE IF a = "empty" THEN "Missing guild_id"
         ELSE IF a = "bad" THEN "Invalid guild_id" ELSE ""
    [] c = "get_lobby_messages" ->
         IF a = "none" THEN "Missing args" ELSE IF a = "empty" THEN "Missing lobby_id"
         ELSE IF a = "bad" THEN "Invalid lobby_id" ELSE ""
    [] c = "get_user_messages" ->
         IF a = "none" THEN "Missing args" ELSE IF a = "empty" THEN "Missing recipient_id"
         ELSE IF a = "bad" THEN "Invalid recipient_id" ELSE ""
    [] c = "get_message" ->
         IF a = "none" THEN "Missing args" ELSE IF a = "empty" THEN "Missing message_id"
         ELSE IF a = "bad" THEN "Invalid message_id" ELSE ""
    [] c = "send_message" ->
         IF a = "none" THEN "Missing args"
         ELSE IF a \in {"empty", "partial"} THEN "Missing channel_id or content"
         ELSE IF a = "bad" THEN "Invalid channel_id" ELSE ""
    [] c = "send_dm" ->
         IF a = "none" THEN "Missing args"
         ELSE IF a \in {"empty", "partial"} THEN "Missing recipient_id or content"
         ELSE IF a = "bad" THEN "Invalid recipient_id" ELSE ""
    [] c \in {"connect_lobby_voice", "disconnect_lobby_voice"} ->
         IF a = "none" THEN "Missing arguments"
         ELSE IF a = "empty" THEN "Missing lobby_id argument"
         ELSE IF a = "bad" THEN "Invalid lobby ID" ELSE ""
    [] c = "set_activity" -> IF a = "none" THEN "Missing args" ELSE ""
    [] c = "get_lobby" -> IF a \in {"none", "bad"} THEN "Invalid lobby ID" ELSE ""
    [] OTHER -> ""

\* Checks made after the INITIALIZED guard has passed.
LateArgError(c, a) ==
  CASE c \in {"send_lobby_message", "leave_lobby"} ->
         IF a \in {"none", "bad"} THEN "Invalid lobby ID" ELSE ""
    [] c = "create_or_join_lobby" ->
         IF a \in {"none", "empty"} THEN "Lobby secret required" ELSE ""
    [] c \in {"send_message", "send_dm"} -> IF a = "nul" THEN "Invalid content" ELSE ""
    [] OTHER -> ""

\* C5 mutant: the branch does not look at INITIALIZED.
PreErrorUnguarded(r, init) ==
  IF ArgError(r.command, r.args) # "" THEN ArgError(r.command, r.args)
  ELSE LateArgError(r.command, r.args)

PreError(r, init) ==
  IF ArgError(r.command, r.args) # "" THEN ArgError(r.command, r.args)
  ELSE IF ~init THEN NotInit
  ELSE LateArgError(r.command, r.args)

\* Commands answered from one or two native calls, without a callback.
SyncCommands ==
  {"get_relationships", "get_lobby_ids", "get_lobby", "get_message",
   "set_mute", "set_deaf", "get_mute_status", "get_deaf_status"}

\* How the json! of a success result writes the identifiers the service
\* assigned (guild, channel, message, author, lobby, user ids), by result
\* kind: `id.to_string()` gives a JSON string, a bare u64 a JSON number.
IdEncoding(kind) ==
  CASE kind \in {"guilds", "channels", "friends", "messages", "message",
                 "message_id", "lobby_id", "lobby_ids"} -> "string"
    [] kind = "lobby" -> "number"
    [] OTHER -> "none"

\* The Response of a SyncCommands branch once its checks have passed.  `ptr` is
\* the value read from CLIENT_PTR, `v` what the native call answers (found /
\* not found, muted / not muted, some items / none).
SyncResponse(r, ptr, v) ==
  CASE r.command = "get_relationships" ->
         IF ptr # 0 THEN Ok(r, Res("friends", IF v THEN 1 ELSE 0))
         ELSE Fail(r, "Client not initialized")
    [] r.command = "get_lobby_ids" ->
         IF ptr # 0 THEN Ok(r, Res("lobby_ids", IF v THEN 1 ELSE 0))
         ELSE Fail(r, "Client not initialized")
    [] r.command = "get_lobby" ->
         IF ptr = 0 THEN Fail(r, "Client not initialized")
         ELSE IF v THEN Ok(r, Res("lobby", 1))
         ELSE Fail(r, "Failed to get lobby handle")
    [] r.command = "get_message" ->
         IF ptr = 0 THEN Fail(r, "Client not initialized")
         ELSE IF v THEN Ok(r, Res("message", 1))
         ELSE Fail(r, "Message not found")
    [] r.command = "set_mute" -> Ok(r, Res("muted", IF r.args = "ok" THEN 1 ELSE 0))
    [] r.command = "set_deaf" -> Ok(r, Res("deafened", IF r.args = "ok" THEN 1 ELSE 0))
    [] r.command = "get_mute_status" -> Ok(r, Res("muted", IF ptr # 0 /\ v THEN 1 ELSE 0))
    [] r.command = "get_deaf_status" -> Ok(r, Res("deafened", IF ptr # 0 /\ v THEN 1 ELSE 0))


\* ------------------------------------------------------------- poll loops
\* Duration::from_secs(n) of the `while timeout.elapsed() < ..` loops.
DeadlineSecs(c) ==
  CASE c \in {"get_guilds", "send_lobby_message"} -> 15
    [] c \in {"get_guild_channels", "send_message", "send_dm", "get_lobby_messages",
              "leave_lobby"} -> 5
    [] c = "set_activity" -> 3
    [] c \in {"get_user_messages", "create_lobby", "create_or_join_lobby",
              "connect_lobby_voice", "disconnect_lobby_voice"} -> 10

Deadline(c) == DeadlineSecs(c) * MsPerSec

\* Duration::from_millis(n) of the thread::sleep that ends an iteration.
Interval(c) ==
  CASE c \in {"send_lobby_message", "disconnect_lobby_voice"} -> 25
    [] c = "connect_lobby_voice" -> 100
    [] OTHER -> 50

\* The loop of disconnect_lobby_voice has no `if done { break }`.
BreaksOnDone(c) == c # "disconnect_lobby_voice"

\* Whether the start function hands (callback, free_fn, user_data) to the
\* service: Discord_Client_StartCall takes no callback.
Registers(c) == c # "connect_lobby_voice"

\* The message of the timeout branch after the loop.
TimeoutError(c) ==
  CASE c = "get_guild_channels" -> "Timeout for guild"
    [] c = "send_message" -> "Message send timeout"
    [] c = "set_activity" -> "Activity update timeout"
    [] c = "send_dm" -> "DM send timeout"
    [] c \in {"get_lobby_messages", "get_user_messages"} -> "Message fetch timeout"
    [] c = "create_lobby" -> "Lobby creation timeout"
    [] c = "send_lobby_message" -> "Send message timeout - callback never fired"
    [] c = "leave_lobby" -> "Leave lobby timeout"
    [] c = "create_or_join_lobby" -> "Lobby operation timeout"
    [] OTHER -> ""

TimeoutErrors == {TimeoutError(c) : c \in PollCommands} \ {""}

\* The code after the poll loop of each branch: the Response computed from the
\* cells of the Completion Token tk.
AfterLoop(r, tk) ==
  CASE r.command = "get_guilds" ->
         IF tk.val = 0 /\ tk.err # "" THEN Fail(r, tk.err) ELSE Ok(r, Res("guilds", tk.val))
    [] r.command = "get_guild_channels" ->
         IF ~tk.done THEN Fail(r, TimeoutError(r.command)) ELSE Ok(r, Res("channels", tk.val))
    [] r.command \in {"get_lobby_messages", "get_user_messages"} ->
         IF ~tk.done THEN Fail(r, TimeoutError(r.command)) ELSE Ok(r, Res("messages", tk.val))
    [] r.command = "send_message" ->
         IF tk.done THEN Ok(r, Res("sent", 1)) ELSE Fail(r, TimeoutError(r.command))
    [] r.command = "set_activity" ->
         IF tk.done THEN Ok(r, Res("updated", 1)) ELSE Fail(r, TimeoutError(r.command))
    [] r.command = "send_dm" ->
         IF tk.done THEN Ok(r, Res("message_id", tk.val)) ELSE Fail(r, TimeoutError(r.command))
    [] r.command = "create_lobby" ->
         IF tk.done THEN Ok(r, Res("lobby_id", tk.val)) ELSE Fail(r, TimeoutError(r.command))
    [] r.command = "send_lobby_message" ->
         IF ~tk.done THEN Fail(r, TimeoutError(r.command))
         ELSE IF ~tk.ok THEN Fail(r, "Discord SDK returned error result for SendLobbyMessage")
         ELSE Ok(r, Res("sent", 1))
    [] r.command = "leave_lobby" ->
         IF tk.done THEN Ok(r, Res("left", 1)) ELSE Fail(r, TimeoutError(r.command))
    [] r.command = "connect_lobby_voice" ->
         Ok(r, Res("connected", IF tk.done THEN 1 ELSE 0))
    [] r.command = "disconnect_lobby_voice" -> Ok(r, Res("disconnected", 1))
    [] r.command = "create_or_join_lobby" ->
         IF tk.done /\ tk.val > 0 THEN Ok(r, Res("lobby_id", tk.val))
         ELSE IF tk.done THEN Fail(r, "Failed to create/join lobby")
         ELSE Fail(r, TimeoutError(r.command))

\* ------------------------------------------------------------ the service
\* What the service can pass to a callback.  result: "ok" (non-null,
\* successful), "fail" (non-null, unsuccessful), "null" (null pointer).
\* span: the list argument ("null" pointer, "empty", "items", or "split":
\* items of which one has a content longer than 50 bytes whose 50th byte is
\* inside a multi-byte character).  id: the u64 argument.
ListOps == {"get_guilds", "get_guild_channels", "get_lobby_messages", "get_user_messages"}
IdOps == {"send_message", "send_dm", "create_lobby", "create_or_join_lobby", "send_lobby_message"}

Out(result, span, id) == [result |-> result, span |-> span, id |-> id]

Outcomes(op) ==
  CASE op \in ListOps ->
         {Out("ok", "empty", 0), Out("ok", "items", 0), Out("fail", "null", 0),
          Out("fail", "empty", 0)}
         \cup (IF op = "get_user_messages" THEN {Out("ok", "split", 0)} ELSE {})
    [] op \in IdOps -> {Out("ok", "na", 1), Out("fail", "na", 0), Out("null", "na", 0)}
    [] op = "authorize" -> {Out("ok", "na", 1), Out("ok", "na", 0), Out("fail", "na", 0)}
    [] op = "get_token" ->
         {Out("ok", "na", 2), Out("ok", "na", 1), Out("ok", "na", 0), Out("fail", "na", 0)}
    [] OTHER -> {Out("ok", "na", 0), Out("fail", "na", 0), Out("null", "na", 0)}

Reported(o) == IF o.result = "ok" THEN "ok" ELSE "fail"

\* user_messages_callback slices content[..min(50, len)] for its log line: a
\* panic when byte 50 is not a character boundary, inside an extern "C" fn.
CallbackPanics(op, o) == op = "get_user_messages" /\ o.span = "split"

\* The callbacks of main.rs: the cells of token tk after the callback ran with
\* arguments o.
Callback(tk, o) ==
  LET t1 == [tk EXCEPT !.outcome = Reported(o)]
      n == IF o.span \in {"items", "split"} THEN 1 ELSE 0
  IN CASE tk.op = "get_guilds" ->
            IF o.span = "null" THEN [t1 EXCEPT !.err = "Null span pointer", !.done = TRUE]
            ELSE [t1 EXCEPT !.val = n, !.done = TRUE]
       [] tk.op \in {"get_guild_channels", "get_lobby_messages", "get_user_messages"} ->
            [t1 EXCEPT !.val = n, !.done = TRUE]
       [] tk.op \in {"send_message", "set_activity", "leave_lobby",
                     "update_token", "update_token_fresh"} ->
            [t1 EXCEPT !.done = TRUE]
       [] tk.op \in {"send_dm", "create_or_join_lobby"} ->
            [t1 EXCEPT !.val = o.id, !.done = TRUE]
       [] tk.op = "create_lobby" ->
            [t1 EXCEPT !.val = IF o.result # "null" THEN o.id ELSE 0, !.done = TRUE]
       [] tk.op = "send_lobby_message" ->
            [t1 EXCEPT !.ok = (o.result # "null"), !.done = TRUE]
       [] tk.op = "disconnect_lobby_voice" ->
            [t1 EXCEPT !.done = (o.result # "null")]
       [] tk.op \in {"authorize", "get_token"} ->
            IF o.result # "ok" THEN [t1 EXCEPT !.done = TRUE]
            ELSE [t1 EXCEPT !.val = o.id, !.done = TRUE]


\* ------------------------------------------------------------------- Init
\* main_improved.rs: `static STATE: Mutex<Option<State>>`; the token field is
\* written once and never read.
NoneState == [some |-> FALSE, client |-> 0, status |-> 0, initialized |-> FALSE]

\* No callback is running.
NoCallback == [kind |-> "none", on |-> "none", c |-> 0, s |-> 0, t |-> 0, at |-> "idle"]

\* main_improved.rs before main has done anything.
ImprovedInit ==
  /\ STATE_ = NoneState /\ stateLock = "free"
  /\ ipc = "read" /\ ireq = NoReq /\ iresp = NoResp /\ inDecoded = 0 /\ inResp = 0
  /\ client_ptr = 0 /\ ielapsed = 0 /\ iresult = NotFetched /\ bgpc = "pump"
  /\ iclients = <<>> /\ itokens = <<>> /\ icur = 0 /\ cbThread = NoCallback
  /\ freeThreaded = FALSE /\ pumped = FALSE /\ usedDropped = FALSE /\ nReports = 0

\* lib.rs: no exported function has been called.
NoCall == [fn |-> "none", handle |-> 0, called |-> FALSE, nret |-> 0, ret |-> 0]

LibInit == wrappers = <<>> /\ natives = <<>> /\ lcall = NoCall /\ nCreated = 0

\* The `limit` local before the handler has computed it, and args without a
\* "limit" key.
NotParsed == [set |-> FALSE, v |-> 0]
\* A JSON integer is kept as its four 16-bit limbs, most significant first.
Absent == [kind |-> "absent", v |-> <<0, 0, 0, 0>>]

LimitIdle == lcmd = "get_lobby_messages" /\ limitArg = Absent /\ limit = NotParsed

\* main.rs: the statics and the locals of main before the first read.
MainInit ==
  /\ pc = "read" /\ req = NoReq /\ resp = NoResp
  /\ nDecoded = 0 /\ nResp = 0
  /\ CLIENT_PTR = 0 /\ TOKEN = FALSE /\ INITIALIZED = FALSE
  /\ CURRENT_STATUS = 0 /\ MESSAGE_EVENTS = <<>>
  /\ clients = <<>> /\ tokens = <<>> /\ cur = 0 /\ elapsed = 0
  /\ called = FALSE /\ last_status = 0 /\ error_4004_seen = FALSE
  /\ newClient = 0 /\ sdk_access_token = 0 /\ memfault = FALSE /\ line = "none"
  /\ loopExit = "none" /\ lateCallback = FALSE /\ svcOutcome = "none"
  /\ readyReported = FALSE /\ regressed = FALSE
  /\ svcThread = Idle /\ fetched = NotFetched /\ events = <<>>
  /\ nEvents = 0 /\ delivered = <<>>

Init == MainInit /\ ImprovedInit /\ LibInit /\ LimitIdle

\* ---------------------------------------------------------------- cleanup
\* Registrations the service still holds for client c.  Dropping the client
\* destroys them: the free function runs, the callback does not.
RegisteredOn(c) == {t \in DOMAIN tokens : tokens[t].reg /\ tokens[t].client = c}

\* C16 mutant: cleanup leaves the initialized flag as it is.
cleanupKeepsFlag ==
  /\ CLIENT_PTR' = 0
  /\ TOKEN' = FALSE
  /\ INITIALIZED' = INITIALIZED
  /\ clients' = Drop(clients, {CLIENT_PTR})
  /\ tokens' = Drop(tokens, RegisteredOn(CLIENT_PTR))
  /\ UNCHANGED memfault

\* C15 mutant: cleanup drops the client and leaves its address in CLIENT_PTR.
cleanupKeepsHandle ==
  /\ CLIENT_PTR' = CLIENT_PTR
  /\ TOKEN' = FALSE
  /\ INITIALIZED' = FALSE
  /\ clients' = Drop(clients, {CLIENT_PTR})
  /\ tokens' = Drop(tokens, RegisteredOn(CLIENT_PTR))
  /\ UNCHANGED memfault

\* fn cleanup(): drop the native client if a handle is stored, clear the
\* handle, the token and the initialized flag.
cleanup ==
  /\ CLIENT_PTR' = 0
  /\ TOKEN' = FALSE
  /\ INITIALIZED' = FALSE
  /\ clients' = Drop(clients, {CLIENT_PTR})
  /\ tokens' = Drop(tokens, RegisteredOn(CLIENT_PTR))
  /\ memfault' = (memfault \/ \E t \in RegisteredOn(CLIENT_PTR) :
                                  tokens[t].box = "freed" /\ ~FreeIsNoop(tokens[t].op))

\* ------------------------------------------------------ main: command loop
\* C2 mutant: the loop takes the next line while a Response is still unwritten.
CanReadAhead == pc \in {"read", "write"}

\* The head of `for line in reader.lines()`: the loop is not inside a handler
\* and not writing.
CanRead == pc = "read"

\* C3 mutant: an undecodable line is answered with an error Response.
SkipAnswered ==
  /\ pc = "read"
  /\ \E l \in {"blank", "garbage", "noid"} : line' = l
  /\ nResp' = nResp + 1
  /\ UNCHANGED <<pc, req, resp, nDecoded, session, CURRENT_STATUS, MESSAGE_EVENTS,
                 clients, tokens, cur, elapsed, called, loopLocals, memfault, loopExit,
                 svcOutcome, lateCallback, readyReported, regressed, threadVars, otherVars>>

\* Ok(json_line) with an empty trim, or serde_json::from_str::<Request> Err:
\* `continue` / eprintln, nothing else.
Skip ==
  /\ CanRead
  /\ \E l \in {"blank", "garbage", "noid"} : line' = l
  /\ UNCHANGED <<pc, req, resp, nDecoded, nResp, session, CURRENT_STATUS, MESSAGE_EVENTS,
                 clients, tokens, cur, elapsed, called, loopLocals, memfault, loopExit,
                 svcOutcome, lateCallback, readyReported, regressed, threadVars, otherVars>>

\* Err(e) from reader.lines(): `break`, then cleanup() and return from main.
ReadError ==
  /\ CanRead
  /\ line' = "badutf8"
  /\ cleanup
  /\ pc' = "exited"
  /\ UNCHANGED <<req, resp, nDecoded, nResp, CURRENT_STATUS, MESSAGE_EVENTS, cur, elapsed,
                 called, loopLocals, loopExit, svcOutcome, lateCallback, readyReported, regressed, threadVars, otherVars>>

\* C22 mutant: main returns at the end of input without calling cleanup().
EndOfInputNoCleanup ==
  /\ pc = "read"
  /\ line' = "eof"
  /\ pc' = "exited"
  /\ UNCHANGED <<req, resp, nDecoded, nResp, session, CURRENT_STATUS, MESSAGE_EVENTS,
                 clients, tokens, cur, elapsed, called, loopLocals, memfault, loopExit,
                 svcOutcome, lateCallback, readyReported, regressed, threadVars, otherVars>>

\* reader.lines() is exhausted: the for loop ends, cleanup() and return.
EndOfInput ==
  /\ pc = "read"
  /\ line' = "eof"
  /\ cleanup
  /\ pc' = "exited"
  /\ UNCHANGED <<req, resp, nDecoded, nResp, CURRENT_STATUS, MESSAGE_EVENTS, cur,
                 elapsed, called, loopLocals, loopExit, svcOutcome, lateCallback, readyReported, regressed, threadVars, otherVars>>

\* Ok(req) from serde_json::from_str: the line is a Request.
Accept(r) ==
  /\ CanRead
  /\ r.id = nDecoded + 1
  /\ nDecoded' = nDecoded + 1
  /\ req' = r
  /\ line' = "request"

\* handle_command returns rsp to main.
Emit(rsp) ==
  /\ resp' = rsp
  /\ pc' = "write"
  /\ UNCHANGED nResp

\* serde_json::to_string(&resp), writeln!(stdout, json), stdout.flush(), then
\* the top of the loop; req, resp and the handler's locals are gone.
WriteResponse ==
  /\ pc = "write"
  /\ nResp' = nResp + 1
  /\ pc' = "read"
  /\ req' = NoReq /\ resp' = NoResp
  /\ elapsed' = 0 /\ called' = FALSE /\ loopExit' = "none" /\ svcOutcome' = "none"
  /\ last_status' = 0 /\ error_4004_seen' = FALSE /\ sdk_access_token' = 0
  /\ lateCallback' = FALSE /\ readyReported' = FALSE /\ regressed' = FALSE
  /\ fetched' = NotFetched /\ events' = <<>>
  /\ UNCHANGED <<svcThread, nEvents, delivered, otherVars>>
  /\ UNCHANGED <<nDecoded, session, CURRENT_STATUS, MESSAGE_EVENTS, clients, tokens,
                 cur, newClient, memfault, line, otherVars>>

NoLoop == UNCHANGED <<cur, elapsed, loopExit, svcOutcome>>

\* C19 mutant: ping is answered only in an initialized session.
CmdPingGuarded(r) ==
  /\ r.command = "ping"
  /\ Accept(r) /\ NoLoop
  /\ Emit(IF INITIALIZED THEN Ok(r, Res("pong", 1)) ELSE Fail(r, NotInit))
  /\ called' = FALSE
  /\ UNCHANGED <<session, CURRENT_STATUS, MESSAGE_EVENTS, clients, tokens, loopLocals,
                 memfault, lateCallback, readyReported, regressed, threadVars, otherVars>>

\* "ping"
CmdPing(r) ==
  /\ r.command = "ping"
  /\ Accept(r) /\ Emit(Ok(r, Res("pong", 1))) /\ NoLoop
  /\ called' = FALSE
  /\ UNCHANGED <<session, CURRENT_STATUS, MESSAGE_EVENTS, clients, tokens, loopLocals, memfault, lateCallback, readyReported, regressed, threadVars, otherVars>>

\* C20 mutant: a name outside the handler table is answered like ping.
CmdUnknownOk(r) ==
  /\ r.command \notin Commands \ {"bogus"}
  /\ Accept(r) /\ Emit(Ok(r, Res("pong", 1))) /\ NoLoop
  /\ called' = FALSE
  /\ UNCHANGED <<session, CURRENT_STATUS, MESSAGE_EVENTS, clients, tokens, loopLocals,
                 memfault, lateCallback, readyReported, regressed, threadVars, otherVars>>

\* the `_` arm
CmdUnknown(r) ==
  /\ r.command \notin Commands \ {"bogus"}
  /\ Accept(r) /\ Emit(Fail(r, "Unknown")) /\ NoLoop
  /\ called' = FALSE
  /\ UNCHANGED <<session, CURRENT_STATUS, MESSAGE_EVENTS, clients, tokens, loopLocals, memfault, lateCallback, readyReported, regressed, threadVars, otherVars>>

\* "disconnect"
CmdDisconnect(r) ==
  /\ r.command = "disconnect"
  /\ Accept(r) /\ Emit(Ok(r, Res("status_disconnected", 0))) /\ NoLoop
  /\ cleanup
  /\ called' = (CLIENT_PTR # 0)
  /\ UNCHANGED <<CURRENT_STATUS, MESSAGE_EVENTS, loopLocals, lateCallback, readyReported, regressed, threadVars, otherVars>>

\* C23 mutant: get_message_events refuses to run without a session.
CmdGetMessageEventsGuarded(r) ==
  /\ r.command = "get_message_events"
  /\ Accept(r) /\ NoLoop
  /\ Emit(IF INITIALIZED THEN Ok(r, Res("messages", Len(MESSAGE_EVENTS)))
          ELSE Fail(r, NotInit))
  /\ MESSAGE_EVENTS' = IF INITIALIZED THEN <<>> ELSE MESSAGE_EVENTS
  /\ called' = FALSE
  /\ UNCHANGED <<session, CURRENT_STATUS, clients, tokens, loopLocals, memfault,
                 lateCallback, readyReported, regressed, threadVars, otherVars>>

\* "get_message_events": drain MESSAGE_EVENTS
CmdGetMessageEvents(r) ==
  /\ r.command = "get_message_events"
  /\ Accept(r) /\ Emit(Ok(r, Res("messages", Len(MESSAGE_EVENTS)))) /\ NoLoop
  /\ MESSAGE_EVENTS' = <<>>
  /\ called' = FALSE
  /\ UNCHANGED <<session, CURRENT_STATUS, clients, tokens, loopLocals, memfault, lateCallback, readyReported, regressed, threadVars, otherVars>>

\* C18 mutant: a session command stopped by one of its checks marks the
\* session uninitialized.
CmdRejectedResets(r) ==
  /\ r.command \in SessionCommands
  /\ PreError(r, INITIALIZED) # ""
  /\ Accept(r) /\ Emit(Fail(r, PreError(r, INITIALIZED))) /\ NoLoop
  /\ called' = FALSE
  /\ INITIALIZED' = FALSE
  /\ UNCHANGED <<CLIENT_PTR, TOKEN, CURRENT_STATUS, MESSAGE_EVENTS, clients, tokens,
                 loopLocals, memfault, lateCallback, readyReported, regressed, threadVars, otherVars>>

\* A session command stopped by one of its checks.
CmdRejected(r) ==
  /\ r.command \in SessionCommands
  /\ PreError(r, INITIALIZED) # ""
  /\ Accept(r) /\ Emit(Fail(r, PreError(r, INITIALIZED))) /\ NoLoop
  /\ called' = FALSE
  /\ UNCHANGED <<session, CURRENT_STATUS, MESSAGE_EVENTS, clients, tokens, loopLocals, memfault, lateCallback, readyReported, regressed, threadVars, otherVars>>

\* The SyncCommands branches that call Discord_RunCallbacks (once or twice,
\* outside any loop) when a handle is stored.
PumpsOnce(c) ==
  c \in {"get_lobby_ids", "get_lobby", "set_mute", "set_deaf", "get_mute_status",
         "get_deaf_status"}

\* A command answered by direct native calls.
CmdSync(r) ==
  /\ r.command \in SyncCommands
  /\ PreError(r, INITIALIZED) = ""
  /\ Accept(r) /\ NoLoop
  /\ IF CLIENT_PTR # 0 /\ PumpsOnce(r.command)
     THEN pc' = "pump" /\ UNCHANGED <<resp, nResp>>
     ELSE \E v \in BOOLEAN : Emit(SyncResponse(r, CLIENT_PTR, v))
  /\ called' = (CLIENT_PTR # 0)
  /\ UNCHANGED <<session, CURRENT_STATUS, MESSAGE_EVENTS, clients, tokens, loopLocals, memfault, lateCallback, readyReported, regressed, threadVars, otherVars>>

\* Discord_RunCallbacks has returned in a PumpsOnce branch: the Response.
CmdSyncReturn ==
  /\ pc = "pump"
  /\ \E v \in BOOLEAN : Emit(SyncResponse(req, CLIENT_PTR, v))
  /\ UNCHANGED <<req, nDecoded, session, CURRENT_STATUS, MESSAGE_EVENTS, clients, tokens,
                 cur, elapsed, called, loopLocals, memfault, line, loopExit, svcOutcome,
                 lateCallback, readyReported, regressed, threadVars, otherVars>>

\* A polling command whose checks passed: allocate the Completion Token, box
\* the clones as user data, call the start function if a handle is stored,
\* and enter the poll loop.  get_guilds and connect_lobby_voice answer
\* "Client not initialized" at once when no handle is stored.
CmdStart(r) ==
  /\ r.command \in PollCommands
  /\ PreError(r, INITIALIZED) = ""
  /\ Accept(r)
  /\ called' = (CLIENT_PTR # 0)
  /\ UNCHANGED <<svcOutcome, loopExit, elapsed, otherVars>>
  /\ IF CLIENT_PTR = 0 /\ r.command \in {"get_guilds", "connect_lobby_voice"}
     THEN /\ Emit(Fail(r, "Client not initialized"))
          /\ UNCHANGED <<cur, tokens>>
     ELSE /\ pc' = "poll"
          /\ cur' = FreshId(tokens)
          /\ tokens' = Put(tokens, FreshId(tokens),
                           NewToken(r.command, CLIENT_PTR,
                                    CLIENT_PTR # 0 /\ Registers(r.command)))
          /\ UNCHANGED <<resp, nResp>>
  /\ UNCHANGED <<session, CURRENT_STATUS, MESSAGE_EVENTS, clients, loopLocals, memfault, lateCallback, readyReported, regressed, threadVars, otherVars>>

\* One iteration of the poll loop that does not leave it: Discord_RunCallbacks,
\* the flag is not set (or not looked at), thread::sleep.
PollSleep ==
  /\ pc = "poll"
  /\ elapsed < Deadline(req.command)
  /\ ~(BreaksOnDone(req.command) /\ tokens[cur].done)
  /\ elapsed' = elapsed + Interval(req.command)
  /\ called' = TRUE
  /\ UNCHANGED <<pc, req, resp, nDecoded, nResp, session, CURRENT_STATUS,
                 MESSAGE_EVENTS, clients, tokens, cur, loopLocals, memfault, line, loopExit,
                 svcOutcome, lateCallback, readyReported, regressed, threadVars, otherVars>>

\* The loop is left, by `break` or because the deadline has passed, and the
\* code after it builds the Response.  send_lobby_message goes on to its
\* second loop when the send succeeded.
PollFinish ==
  /\ pc = "poll"
  /\ LET c == req.command
         byFlag == elapsed < Deadline(c) /\ BreaksOnDone(c) /\ tokens[cur].done
         rsp == AfterLoop(req, tokens[cur])
     IN /\ byFlag \/ elapsed >= Deadline(c)
        /\ loopExit' = IF byFlag THEN "done"
                       ELSE IF tokens[cur].done THEN "expired_done" ELSE "expired"
        /\ svcOutcome' = tokens[cur].outcome
        /\ called' = (called \/ byFlag)
        /\ tokens' = Release(tokens, cur)
        /\ cur' = 0
        /\ IF c = "send_lobby_message" /\ rsp.success
           THEN pc' = "sync" /\ elapsed' = 0 /\ UNCHANGED <<resp, nResp>>
           ELSE Emit(rsp) /\ UNCHANGED elapsed
  /\ UNCHANGED <<req, nDecoded, session, CURRENT_STATUS, MESSAGE_EVENTS, clients,
                 loopLocals, memfault, line, lateCallback, readyReported, regressed, threadVars, otherVars>>

\* send_lobby_message, "Additional polling": 5 s of RunCallbacks / sleep(25).
SyncSleep ==
  /\ pc = "sync"
  /\ elapsed < 5 * MsPerSec
  /\ elapsed' = elapsed + 25
  /\ UNCHANGED <<pc, req, resp, nDecoded, nResp, session, CURRENT_STATUS,
                 MESSAGE_EVENTS, clients, tokens, cur, called, loopLocals, memfault, line,
                 loopExit, svcOutcome, lateCallback, readyReported, regressed, threadVars, otherVars>>

SyncFinish ==
  /\ pc = "sync"
  /\ elapsed >= 5 * MsPerSec
  /\ Emit(Ok(req, Res("sent", 1)))
  /\ UNCHANGED <<req, nDecoded, session, CURRENT_STATUS, MESSAGE_EVENTS, clients,
                 tokens, cur, elapsed, called, loopLocals, memfault, line, loopExit,
                 svcOutcome, lateCallback, readyReported, regressed, threadVars, otherVars>>

\* ------------------------------------------------------- init_discord_sdk
\* The wait loops of init_discord_sdk, and its two ready-wait loops.
WaitLoops ==
  {"init_token", "init_auth", "init_stabilize", "init_gettoken", "init_token_fresh",
   "init_settle", "init_after_connect"}

ReadyLoops == {"init_ready", "init_ready_fresh"}

\* "initialize" without args, or without a string token: no call is made.
CmdInitReject(r) ==
  /\ r.command = "initialize"
  /\ r.args \in {"none", "empty"}
  /\ Accept(r) /\ NoLoop
  /\ Emit(Fail(r, IF r.args = "none" THEN "Missing args" ELSE "Missing token"))
  /\ called' = FALSE
  /\ UNCHANGED <<session, CURRENT_STATUS, MESSAGE_EVENTS, clients, tokens, loopLocals, memfault, lateCallback, readyReported, regressed, threadVars, otherVars>>

\* app_id is 0 (absent or unparsable): Discord_SetFreeThreaded and
\* Discord_Client_Init have run, then Err("No application ID provided"); the
\* Box of the client is dropped without Discord_Client_Drop, no callback was
\* registered on it.
CmdInitNoAppId(r) ==
  /\ r.command = "initialize"
  /\ r.args = "noappid"
  /\ Accept(r) /\ NoLoop
  /\ Emit(Fail(r, "No application ID provided"))
  /\ called' = TRUE
  /\ clients' = Put(clients, FreshId(clients), [statusCb |-> FALSE, messageCb |-> FALSE])
  /\ UNCHANGED <<session, CURRENT_STATUS, MESSAGE_EVENTS, tokens, loopLocals, memfault, lateCallback, readyReported, regressed, threadVars, otherVars>>

\* Client_Init, SetApplicationId, SetStatusChangedCallback, then either
\* UpdateToken with the stored token or Authorize, and the first wait loop.
CmdInitStart(r) ==
  /\ r.command = "initialize"
  /\ r.args \in {"stored", "auth"}
  /\ Accept(r)
  /\ LET c == FreshId(clients)
         t == FreshId(tokens)
     IN /\ clients' = Put(clients, c, [statusCb |-> TRUE, messageCb |-> FALSE])
        /\ newClient' = c
        /\ cur' = t
        /\ tokens' = Put(tokens, t,
                         NewToken(IF r.args = "stored" THEN "update_token" ELSE "authorize",
                                  c, TRUE))
  /\ pc' = IF r.args = "stored" THEN "init_token" ELSE "init_auth"
  /\ UNCHANGED <<elapsed, loopExit, svcOutcome, otherVars>>
  /\ called' = TRUE
  /\ UNCHANGED <<resp, nResp, session, CURRENT_STATUS, MESSAGE_EVENTS, last_status,
                 error_4004_seen, sdk_access_token, memfault, lateCallback, readyReported, regressed, threadVars, otherVars>>

\* The deadline of each loop of init_discord_sdk (from_secs, and the
\* from_millis(200) of the loop after Connect), and its sleep.
InitDeadline(p) ==
  CASE p \in {"init_token", "init_token_fresh"} -> 5 * MsPerSec
    [] p \in {"init_auth", "init_gettoken", "init_ready", "init_ready_fresh"} -> 30 * MsPerSec
    [] p = "init_stabilize" -> 8 * MsPerSec
    [] p = "init_settle" -> 3 * MsPerSec
    [] p = "init_after_connect" -> (200 * MsPerSec) \div 1000

InitInterval(p) ==
  CASE p \in {"init_token", "init_token_fresh", "init_gettoken"} -> 50
    [] p \in {"init_auth", "init_settle"} -> 100
    [] p = "init_stabilize" -> 500
    [] p = "init_after_connect" -> 20
    [] p \in ReadyLoops -> 200

\* Whether the loop at p goes round once more (RunCallbacks, no break, sleep).
Continues(p) ==
  CASE p \in {"init_token", "init_token_fresh", "init_auth"} ->
         elapsed < InitDeadline(p) /\ ~tokens[cur].done
    [] p = "init_gettoken" -> ~tokens[cur].done /\ ~(elapsed > InitDeadline(p))
    [] p = "init_stabilize" -> elapsed < InitDeadline(p) /\ CURRENT_STATUS < 2
    [] p \in {"init_settle", "init_after_connect"} -> elapsed < InitDeadline(p)

InitSleep ==
  /\ pc \in WaitLoops
  /\ Continues(pc)
  /\ elapsed' = elapsed + InitInterval(pc)
  /\ UNCHANGED <<pc, req, resp, nDecoded, nResp, session, CURRENT_STATUS,
                 MESSAGE_EVENTS, clients, tokens, cur, called, loopLocals, memfault, line,
                 loopExit, svcOutcome, lateCallback, readyReported, regressed, threadVars, otherVars>>

\* C13 mutant: a failure of init_discord_sdk ends the process.
InitErrFatal(e) ==
  /\ resp' = Fail(req, e)
  /\ pc' = "exited"
  /\ UNCHANGED nResp
  /\ newClient' = 0
  /\ cur' = 0

\* init_discord_sdk returns Err(e): the Response is built by handle_command.
InitErr(e) ==
  /\ Emit(Fail(req, e))
  /\ newClient' = 0
  /\ cur' = 0

\* The ready-wait loop is entered.
EnterReady(p) ==
  /\ pc' = p
  /\ elapsed' = 0
  /\ last_status' = 0
  /\ error_4004_seen' = FALSE

\* Stored-token path after the UpdateToken wait (the callback fired or 5 s
\* passed): Connect, store TOKEN and CLIENT_PTR, register on_message_created.
InitTokenDone ==
  /\ pc = "init_token"
  /\ ~Continues(pc)
  /\ TOKEN' = TRUE
  /\ CLIENT_PTR' = newClient
  /\ clients' = [clients EXCEPT ![newClient].messageCb = TRUE]
  /\ tokens' = Release(tokens, cur)
  /\ cur' = 0
  /\ EnterReady("init_ready")
  /\ UNCHANGED <<req, resp, nDecoded, nResp, INITIALIZED, CURRENT_STATUS,
                 MESSAGE_EVENTS, called, newClient, sdk_access_token, memfault, line,
                 loopExit, svcOutcome, lateCallback, readyReported, regressed, threadVars, otherVars>>

\* An iteration of the ready-wait loop that reads a status below 3.
InitReadySleep ==
  /\ pc \in ReadyLoops
  /\ elapsed < InitDeadline(pc)
  /\ CURRENT_STATUS < DISCORD_CLIENT_STATUS_READY
  /\ LET status == CURRENT_STATUS
         ls == IF status # last_status THEN status ELSE last_status
     IN /\ last_status' = ls
        /\ error_4004_seen' = (error_4004_seen \/ (status = 0 /\ ls = 2))
  /\ elapsed' = elapsed + InitInterval(pc)
  /\ UNCHANGED <<pc, req, resp, nDecoded, nResp, session, CURRENT_STATUS,
                 MESSAGE_EVENTS, clients, tokens, cur, called, newClient, sdk_access_token,
                 memfault, line, loopExit, svcOutcome, lateCallback, readyReported, regressed, threadVars, otherVars>>

\* An iteration of the ready-wait loop that reads status >= 3.
InitReadyOk ==
  /\ pc \in ReadyLoops
  /\ elapsed < InitDeadline(pc)
  /\ CURRENT_STATUS >= DISCORD_CLIENT_STATUS_READY
  /\ INITIALIZED' = TRUE
  /\ last_status' = CURRENT_STATUS
  /\ newClient' = 0
  /\ Emit(Ok(req, Res("status_initialized", 0)))
  /\ loopExit' = "done"
  /\ UNCHANGED <<req, nDecoded, CLIENT_PTR, TOKEN, CURRENT_STATUS, MESSAGE_EVENTS,
                 clients, tokens, cur, elapsed, called, error_4004_seen, sdk_access_token,
                 memfault, line, svcOutcome, lateCallback, readyReported, regressed, threadVars, otherVars>>

\* The ready-wait deadline has passed.
InitReadyFail ==
  /\ pc \in ReadyLoops
  /\ elapsed >= InitDeadline(pc)
  /\ InitErr(IF error_4004_seen THEN "SDK error 4004" ELSE "SDK connection timeout")
  /\ loopExit' = "expired"
  /\ UNCHANGED <<req, nDecoded, session, CURRENT_STATUS, MESSAGE_EVENTS, clients,
                 tokens, elapsed, called, last_status, error_4004_seen, sdk_access_token,
                 memfault, line, svcOutcome, lateCallback, readyReported, regressed, threadVars, otherVars>>

\* Authorization path after the Authorize wait.
InitAuthDone ==
  /\ pc = "init_auth"
  /\ ~Continues(pc)
  /\ tokens' = Release(tokens, cur)
  /\ IF ~tokens[cur].done
     THEN InitErr("Authorization timeout") /\ UNCHANGED elapsed
     ELSE IF tokens[cur].val = 0
     THEN InitErr("No authorization code received") /\ UNCHANGED elapsed
     ELSE /\ pc' = "init_stabilize" /\ elapsed' = 0 /\ cur' = 0
          /\ UNCHANGED <<resp, nResp, newClient>>
  /\ UNCHANGED <<req, nDecoded, session, CURRENT_STATUS, MESSAGE_EVENTS, clients,
                 called, last_status, error_4004_seen, sdk_access_token, memfault, line,
                 loopExit, svcOutcome, lateCallback, readyReported, regressed, threadVars, otherVars>>

\* After the stabilize loop (status >= 2 seen, or 8 s passed): GetToken.
InitStabilizeDone ==
  /\ pc = "init_stabilize"
  /\ ~Continues(pc)
  /\ cur' = FreshId(tokens)
  /\ tokens' = Put(tokens, FreshId(tokens), NewToken("get_token", newClient, TRUE))
  /\ pc' = "init_gettoken" /\ elapsed' = 0
  /\ UNCHANGED <<req, resp, nDecoded, nResp, session, CURRENT_STATUS, MESSAGE_EVENTS,
                 clients, called, loopLocals, memfault, line, loopExit, svcOutcome, lateCallback, readyReported, regressed, threadVars, otherVars>>

\* After the GetToken wait: UpdateToken with the access token received.
InitGetTokenDone ==
  /\ pc = "init_gettoken"
  /\ ~Continues(pc)
  /\ IF ~tokens[cur].done
     THEN /\ InitErr("GetToken timeout") /\ tokens' = Release(tokens, cur)
          /\ UNCHANGED <<elapsed, sdk_access_token>>
     ELSE IF tokens[cur].val = 0
     THEN /\ InitErr("No access token received") /\ tokens' = Release(tokens, cur)
          /\ UNCHANGED <<elapsed, sdk_access_token>>
     ELSE LET rest == Release(tokens, cur)
          IN /\ sdk_access_token' = tokens[cur].val
             /\ cur' = FreshId(rest)
             /\ tokens' = Put(rest, FreshId(rest),
                              NewToken("update_token_fresh", newClient, TRUE))
             /\ pc' = "init_token_fresh" /\ elapsed' = 0
             /\ UNCHANGED <<resp, nResp, newClient>>
  /\ UNCHANGED <<req, nDecoded, session, CURRENT_STATUS, MESSAGE_EVENTS, clients,
                 called, last_status, error_4004_seen, memfault, line, loopExit, svcOutcome, lateCallback, readyReported, regressed, threadVars, otherVars>>

\* After the second UpdateToken wait: the length check of the access token.
InitFreshTokenDone ==
  /\ pc = "init_token_fresh"
  /\ ~Continues(pc)
  /\ tokens' = Release(tokens, cur)
  /\ IF sdk_access_token < 2
     THEN InitErr("Access token appears malformed (too short)") /\ UNCHANGED elapsed
     ELSE /\ pc' = "init_settle" /\ elapsed' = 0 /\ cur' = 0
          /\ UNCHANGED <<resp, nResp, newClient>>
  /\ UNCHANGED <<req, nDecoded, session, CURRENT_STATUS, MESSAGE_EVENTS, clients,
                 called, last_status, error_4004_seen, sdk_access_token, memfault, line,
                 loopExit, svcOutcome, lateCallback, readyReported, regressed, threadVars, otherVars>>

\* After the 3 s settle loop: Connect, store CLIENT_PTR and TOKEN.
InitSettleDone ==
  /\ pc = "init_settle"
  /\ ~Continues(pc)
  /\ CLIENT_PTR' = newClient
  /\ TOKEN' = TRUE
  /\ pc' = "init_after_connect" /\ elapsed' = 0
  /\ UNCHANGED <<req, resp, nDecoded, nResp, INITIALIZED, CURRENT_STATUS,
                 MESSAGE_EVENTS, clients, tokens, cur, called, loopLocals, memfault, line,
                 loopExit, svcOutcome, lateCallback, readyReported, regressed, threadVars, otherVars>>

\* After the 200 ms of callbacks that follow Connect: the ready-wait loop.
InitAfterConnectDone ==
  /\ pc = "init_after_connect"
  /\ ~Continues(pc)
  /\ EnterReady("init_ready_fresh")
  /\ UNCHANGED <<req, resp, nDecoded, nResp, session, CURRENT_STATUS, MESSAGE_EVENTS,
                 clients, tokens, cur, called, newClient, sdk_access_token, memfault, line,
                 loopExit, svcOutcome, lateCallback, readyReported, regressed, threadVars, otherVars>>

\* ------------------------------------------------- the service's callbacks
\* The command thread is inside Discord_RunCallbacks: at the head of an
\* iteration of one of the loops (the GetToken loop pumps before it looks at
\* its deadline).
Pumping ==
  \/ pc = "poll" /\ elapsed < Deadline(req.command)
  \/ pc = "sync" /\ elapsed < 5 * MsPerSec
  \/ pc \in (WaitLoops \cup ReadyLoops) \ {"init_gettoken"} /\ elapsed < InitDeadline(pc)
  \/ pc = "init_gettoken"
  \/ pc = "pump"

\* C26 mutant: the handlers share one completion flag, so a callback that
\* arrives late sets the flag the running handler polls.
DeliverShared(t) ==
  /\ Pumping
  /\ t \in DOMAIN tokens
  /\ tokens[t].reg
  /\ tokens[t].client \in DOMAIN clients
  /\ lateCallback' = (lateCallback \/ ~tokens[t].held)
  /\ \E o \in Outcomes(tokens[t].op) :
       IF tokens[t].box = "freed"
       THEN /\ memfault' = TRUE
            /\ tokens' = Drop(tokens, {t})
            /\ UNCHANGED pc
       ELSE IF CallbackPanics(tokens[t].op, o)
       THEN /\ pc' = "aborted"
            /\ UNCHANGED <<tokens, memfault>>
       ELSE LET tk == [Callback(tokens[t], o) EXCEPT
                          !.reg = FALSE, !.box = FreeBox(tokens[t].op, tokens[t].box)]
            IN /\ tokens' = IF tk.held THEN [tokens EXCEPT ![t] = tk]
                            ELSE IF cur \in DOMAIN tokens \ {t}
                            THEN [Drop(tokens, {t}) EXCEPT ![cur].done = TRUE]
                            ELSE Drop(tokens, {t})
               /\ UNCHANGED <<pc, memfault>>
  /\ UNCHANGED <<req, resp, nDecoded, nResp, session, CURRENT_STATUS, MESSAGE_EVENTS,
                 clients, cur, elapsed, called, loopLocals, line, loopExit, svcOutcome,
                 readyReported, regressed, threadVars, otherVars>>

\* The service completes a registered operation: it calls the callback with
\* some outcome, then the free function, with the user data it was given.
Deliver(t) ==
  /\ Pumping
  /\ t \in DOMAIN tokens
  /\ tokens[t].reg
  /\ tokens[t].client \in DOMAIN clients
  /\ lateCallback' = (lateCallback \/ ~tokens[t].held)
  /\ \E o \in Outcomes(tokens[t].op) :
       IF tokens[t].box = "freed"
       THEN /\ memfault' = TRUE
            /\ tokens' = Drop(tokens, {t})
            /\ UNCHANGED pc
       ELSE IF CallbackPanics(tokens[t].op, o)
       THEN /\ pc' = "aborted"
            /\ UNCHANGED <<tokens, memfault>>
       ELSE LET tk == [Callback(tokens[t], o) EXCEPT
                          !.reg = FALSE, !.box = FreeBox(tokens[t].op, tokens[t].box)]
            IN /\ tokens' = IF tk.held THEN [tokens EXCEPT ![t] = tk] ELSE Drop(tokens, {t})
               /\ UNCHANGED <<pc, memfault>>
  /\ UNCHANGED <<req, resp, nDecoded, nResp, session, CURRENT_STATUS, MESSAGE_EVENTS,
                 clients, cur, elapsed, called, loopLocals, line, loopExit, svcOutcome,
                 readyReported, regressed, threadVars, otherVars>>

\* status_callback: the service reports a status of a client that registered
\* it.
StatusChanged ==
  /\ Pumping
  /\ \E c \in DOMAIN clients, s \in 0..DISCORD_CLIENT_STATUS_READY :
       /\ clients[c].statusCb
       /\ CURRENT_STATUS' = s
       /\ readyReported' = (readyReported \/ (c = newClient /\ s >= DISCORD_CLIENT_STATUS_READY))
       /\ regressed' = (regressed \/ (newClient # 0 /\ CURRENT_STATUS = 2 /\ s = 0))
  /\ UNCHANGED <<pc, req, resp, nDecoded, nResp, session, MESSAGE_EVENTS, clients,
                 tokens, cur, elapsed, called, loopLocals, memfault, line, loopExit,
                 svcOutcome, lateCallback, threadVars, otherVars>>

\* on_message_created: the service reports a new message to a client that
\* registered the callback.
MessageCreated ==
  /\ Pumping
  /\ Len(MESSAGE_EVENTS) < MaxEvents
  /\ \E c \in DOMAIN clients : clients[c].messageCb
  /\ MESSAGE_EVENTS' = Append(MESSAGE_EVENTS, 1)
  /\ UNCHANGED <<pc, req, resp, nDecoded, nResp, session, CURRENT_STATUS, clients,
                 tokens, cur, elapsed, called, loopLocals, memfault, line, loopExit,
                 svcOutcome, lateCallback, readyReported, regressed, threadVars, otherVars>>


\* ------------------------------------------------------------------- Next
handle_command(r) ==
  \/ CmdPing(r)
  \/ CmdUnknown(r)
  \/ CmdDisconnect(r)
  \/ CmdGetMessageEvents(r)
  \/ CmdRejected(r)
  \/ CmdSync(r)
  \/ CmdStart(r)
  \/ CmdInitReject(r)
  \/ CmdInitNoAppId(r)
  \/ CmdInitStart(r)

init_discord_sdk ==
  \/ InitSleep
  \/ InitTokenDone
  \/ InitReadySleep
  \/ InitReadyOk
  \/ InitReadyFail
  \/ InitAuthDone
  \/ InitStabilizeDone
  \/ InitGetTokenDone
  \/ InitFreshTokenDone
  \/ InitSettleDone
  \/ InitAfterConnectDone

Service ==
  \/ \E t \in DOMAIN tokens : Deliver(t)
  \/ StatusChanged
  \/ MessageCreated

Next ==
  \/ Skip
  \/ ReadError
  \/ EndOfInput
  \/ CanRead /\ \E r \in {q \in Request : q.id = nDecoded + 1} : handle_command(r)
  \/ WriteResponse
  \/ CmdSyncReturn
  \/ PollSleep
  \/ PollFinish
  \/ SyncSleep
  \/ SyncFinish
  \/ init_discord_sdk
  \/ Service

Spec == Init /\ [][Next]_vars

TypeOK ==
  /\ pc \in {"read", "poll", "sync", "pump", "write", "exited", "aborted"} \cup WaitLoops \cup ReadyLoops
  /\ nResp \in 0..MaxRequests /\ nDecoded \in 0..MaxRequests
  /\ INITIALIZED \in BOOLEAN /\ TOKEN \in BOOLEAN
  /\ CURRENT_STATUS \in 0..3
  /\ Len(MESSAGE_EVENTS) <= MaxEvents
  /\ cur \in DOMAIN tokens \cup {0}

\* ------------------------------------------- callbacks on a service thread
\* The state main.rs is in once an initialize with a stored token has been
\* answered with success: the first Request decoded and answered, the client
\* stored, both callbacks registered on it, the status 3.
ThreadedInit ==
  /\ pc = "read" /\ req = NoReq /\ resp = NoResp
  /\ nDecoded = 1 /\ nResp = 1
  /\ CLIENT_PTR = 1 /\ TOKEN = TRUE /\ INITIALIZED = TRUE
  /\ CURRENT_STATUS = DISCORD_CLIENT_STATUS_READY /\ MESSAGE_EVENTS = <<>>
  /\ clients = <<[statusCb |-> TRUE, messageCb |-> TRUE]>>
  /\ tokens = <<>> /\ cur = 0 /\ elapsed = 0
  /\ called = FALSE /\ last_status = 0 /\ error_4004_seen = FALSE
  /\ newClient = 0 /\ sdk_access_token = 0 /\ memfault = FALSE /\ line = "request"
  /\ loopExit = "none" /\ lateCallback = FALSE /\ svcOutcome = "none"
  /\ readyReported = FALSE /\ regressed = FALSE
  /\ svcThread = Idle /\ fetched = NotFetched /\ events = <<>>
  /\ nEvents = 0 /\ delivered = <<>>
  /\ ImprovedInit /\ LibInit /\ LimitIdle

\* The fetch handlers: a list callback fills a Vec behind a Mutex and then
\* sets the completed flag behind another one.
FetchCommands == {"get_guild_channels", "get_lobby_messages", "get_user_messages"}

\* The branches that clone the payload before they look at the flag.
ClonesFirst(c) == c \in {"get_guild_channels", "get_lobby_messages"}

\* The Requests the host sends after the initialize.
ThreadedRequest ==
  [id : 2..(1 + MaxThreadRequests), command : FetchCommands, args : {"ok"}]
    \cup [id : 2..(1 + MaxThreadRequests), command : {"get_message_events"}, args : {"none"}]

\* The callback running on the service's thread holds the MutexGuard of the
\* payload cell of token t (taken on entry, dropped when the callback returns).
HoldsPayloadLock(t) == svcThread.t = t /\ svcThread.at \in {"locked", "flagged"}

\* The `while timeout.elapsed() < ..` loop of a fetch handler is left: the
\* flag was read as set (break), or the deadline has passed.
LoopExit ==
  /\ pc = "poll"
  /\ tokens[cur].done \/ elapsed >= Deadline(req.command)
  /\ pc' = "after_loop"
  /\ loopExit' = IF elapsed < Deadline(req.command) THEN "done"
                 ELSE IF tokens[cur].done THEN "expired_done" ELSE "expired"
  /\ UNCHANGED <<req, resp, nDecoded, nResp, session, CURRENT_STATUS, MESSAGE_EVENTS,
                 clients, tokens, cur, elapsed, called, loopLocals, memfault, line,
                 svcOutcome, lateCallback, readyReported, regressed, threadVars, otherVars>>

\* get_guild_channels, get_lobby_messages:
\* `let fetched = payload.lock().unwrap().clone();`
ClonePayload ==
  /\ pc = "after_loop"
  /\ ClonesFirst(req.command)
  /\ ~HoldsPayloadLock(cur)
  /\ fetched' = tokens[cur].val
  /\ pc' = "check"
  /\ UNCHANGED <<req, resp, nDecoded, nResp, session, CURRENT_STATUS, MESSAGE_EVENTS,
                 clients, tokens, cur, elapsed, called, loopLocals, memfault, line,
                 loopExit, svcOutcome, lateCallback, readyReported, regressed,
                 svcThread, events, nEvents, delivered, otherVars>>

\* get_guild_channels, get_lobby_messages: `if !*completed.lock().unwrap()`
\* after the clone, and the Response built from the clone.
CheckCompleted ==
  /\ pc = "check"
  /\ Emit(AfterLoop(req, [tokens[cur] EXCEPT !.val = fetched]))
  /\ svcOutcome' = tokens[cur].outcome
  /\ tokens' = Release(tokens, cur)
  /\ cur' = 0
  /\ UNCHANGED <<req, nDecoded, session, CURRENT_STATUS, MESSAGE_EVENTS, clients,
                 elapsed, called, loopLocals, memfault, line, loopExit, lateCallback,
                 readyReported, regressed, threadVars, otherVars>>

\* get_user_messages: `if *completed.lock().unwrap()` comes first; the timeout
\* Response when the flag is not set.
CheckCompletedFirst ==
  /\ pc = "after_loop"
  /\ ~ClonesFirst(req.command)
  /\ IF tokens[cur].done
     THEN pc' = "clone" /\ UNCHANGED <<resp, nResp, tokens, cur, svcOutcome>>
     ELSE /\ Emit(AfterLoop(req, tokens[cur]))
          /\ svcOutcome' = tokens[cur].outcome
          /\ tokens' = Release(tokens, cur)
          /\ cur' = 0
  /\ UNCHANGED <<req, nDecoded, session, CURRENT_STATUS, MESSAGE_EVENTS, clients,
                 elapsed, called, loopLocals, memfault, line, loopExit, lateCallback,
                 readyReported, regressed, threadVars, otherVars>>

\* get_user_messages: `let fetched_messages = messages.lock().unwrap();` and
\* the Response built from it.
CloneAndAnswer ==
  /\ pc = "clone"
  /\ ~HoldsPayloadLock(cur)
  /\ fetched' = tokens[cur].val
  /\ Emit(AfterLoop(req, tokens[cur]))
  /\ svcOutcome' = tokens[cur].outcome
  /\ tokens' = Release(tokens, cur)
  /\ cur' = 0
  /\ UNCHANGED <<req, nDecoded, session, CURRENT_STATUS, MESSAGE_EVENTS, clients,
                 elapsed, called, loopLocals, memfault, line, loopExit, lateCallback,
                 readyReported, regressed, svcThread, events, nEvents, delivered, otherVars>>

\* The service's thread enters the callback of a registered fetch: the
\* callback locks the payload cell and pushes the items of the span (or, in
\* user_messages_callback, panics on a split character).
CallbackEnter(t) ==
  /\ pc \notin {"exited", "aborted"}
  /\ svcThread = Idle
  /\ t \in DOMAIN tokens
  /\ tokens[t].reg
  /\ \E o \in Outcomes(tokens[t].op) :
       IF CallbackPanics(tokens[t].op, o)
       THEN pc' = "aborted" /\ UNCHANGED <<tokens, svcThread>>
       ELSE /\ tokens' = [tokens EXCEPT ![t].val = Callback(tokens[t], o).val]
            /\ svcThread' = [t |-> t, at |-> "locked", o |-> o]
            /\ UNCHANGED pc
  /\ lateCallback' = (lateCallback \/ ~tokens[t].held)
  /\ UNCHANGED <<req, resp, nDecoded, nResp, session, CURRENT_STATUS, MESSAGE_EVENTS,
                 clients, cur, elapsed, called, loopLocals, memfault, line, loopExit,
                 svcOutcome, readyReported, regressed, fetched, events, nEvents, delivered, otherVars>>

\* `*fetch_data.completed.lock().unwrap() = true;`, the payload still locked.
CallbackSetDone ==
  /\ pc \notin {"exited", "aborted"}
  /\ svcThread.at = "locked"
  /\ tokens' = [tokens EXCEPT ![svcThread.t] =
                  [Callback(tokens[svcThread.t], svcThread.o) EXCEPT
                     !.val = tokens[svcThread.t].val]]
  /\ svcThread' = [svcThread EXCEPT !.at = "flagged"]
  /\ UNCHANGED <<pc, req, resp, nDecoded, nResp, session, CURRENT_STATUS, MESSAGE_EVENTS,
                 clients, cur, elapsed, called, loopLocals, memfault, line, loopExit,
                 svcOutcome, lateCallback, readyReported, regressed, fetched, events,
                 nEvents, delivered, otherVars>>

\* The callback returns (the guard of the payload is dropped) and the service
\* calls the free function.
CallbackReturn ==
  /\ pc \notin {"exited", "aborted"}
  /\ svcThread.at = "flagged"
  /\ LET t == svcThread.t
         tk == [tokens[t] EXCEPT !.reg = FALSE, !.box = FreeBox(tokens[t].op, tokens[t].box)]
     IN tokens' = IF tk.held THEN [tokens EXCEPT ![t] = tk] ELSE Drop(tokens, {t})
  /\ svcThread' = Idle
  /\ UNCHANGED <<pc, req, resp, nDecoded, nResp, session, CURRENT_STATUS, MESSAGE_EVENTS,
                 clients, cur, elapsed, called, loopLocals, memfault, line, loopExit,
                 svcOutcome, lateCallback, readyReported, regressed, fetched, events,
                 nEvents, delivered, otherVars>>

\* on_message_created on the service's thread: lock MESSAGE_EVENTS, push.
MessageCreatedAsync ==
  /\ pc \notin {"exited", "aborted"}
  /\ nEvents < MaxThreadEvents
  /\ \E c \in DOMAIN clients : clients[c].messageCb
  /\ nEvents' = nEvents + 1
  /\ MESSAGE_EVENTS' = Append(MESSAGE_EVENTS, nEvents + 1)
  /\ UNCHANGED <<pc, req, resp, nDecoded, nResp, session, CURRENT_STATUS, clients,
                 tokens, cur, elapsed, called, loopLocals, memfault, line, loopExit,
                 svcOutcome, lateCallback, readyReported, regressed, svcThread, fetched,
                 events, delivered, otherVars>>

\* C21 mutant: the handler copies the queue and leaves it as it is.
DrainEventsCopy(r) ==
  /\ r.command = "get_message_events"
  /\ Accept(r)
  /\ events' = MESSAGE_EVENTS
  /\ pc' = "drained"
  /\ called' = FALSE
  /\ UNCHANGED <<resp, nResp, session, CURRENT_STATUS, MESSAGE_EVENTS, clients, tokens,
                 cur, elapsed, loopLocals, memfault, loopExit, svcOutcome, lateCallback,
                 readyReported, regressed, svcThread, fetched, nEvents, delivered, otherVars>>

\* "get_message_events": lock MESSAGE_EVENTS, `events = msg_events.drain(..)
\* .collect()`, unlock.
DrainEvents(r) ==
  /\ r.command = "get_message_events"
  /\ Accept(r)
  /\ events' = MESSAGE_EVENTS
  /\ MESSAGE_EVENTS' = <<>>
  /\ pc' = "drained"
  /\ called' = FALSE
  /\ UNCHANGED <<resp, nResp, session, CURRENT_STATUS, clients, tokens, cur, elapsed,
                 loopLocals, memfault, loopExit, svcOutcome, lateCallback, readyReported,
                 regressed, svcThread, fetched, nEvents, delivered, otherVars>>

\* "get_message_events": the Response built from the local `events`.
AnswerEvents ==
  /\ pc = "drained"
  /\ Emit(Ok(req, Res("messages", events)))
  /\ delivered' = delivered \o events
  /\ UNCHANGED <<req, nDecoded, session, CURRENT_STATUS, MESSAGE_EVENTS, clients, tokens,
                 cur, elapsed, called, loopLocals, memfault, line, loopExit, svcOutcome,
                 lateCallback, readyReported, regressed, svcThread, fetched, events, nEvents, otherVars>>

ThreadedNext ==
  \/ \E r \in ThreadedRequest : r.id = nDecoded + 1 /\ CmdStart(r)
  \/ \E r \in ThreadedRequest : r.id = nDecoded + 1 /\ DrainEvents(r)
  \/ PollSleep
  \/ LoopExit
  \/ ClonePayload
  \/ CheckCompleted
  \/ CheckCompletedFirst
  \/ CloneAndAnswer
  \/ AnswerEvents
  \/ WriteResponse
  \/ \E t \in DOMAIN tokens : CallbackEnter(t)
  \/ CallbackSetDone
  \/ CallbackReturn
  \/ MessageCreatedAsync

SpecThreaded == ThreadedInit /\ [][ThreadedNext]_vars

\* ------------------------------------------------------- main_improved.rs
\* The command thread, the background callback processor main spawns, and
\* the service, which runs a callback either inside the Discord_RunCallbacks
\* of the background thread ("bg") or on a thread of its own ("svc").
\* initialize: none (no args), empty (no token), nul (token with a NUL byte), ok.
\* get_guild_channels: none (no args), bad (guild_id absent or not a u64), ok.
ImprovedArgsOf(c) ==
  CASE c = "initialize" -> {"none", "empty", "nul", "ok"}
    [] c = "get_guild_channels" -> {"none", "bad", "ok"}
    [] OTHER -> {"none"}

ImprovedRequest ==
  UNION {[id : 1..MaxImprovedRequests, command : {c}, args : ImprovedArgsOf(c)] :
           c \in {"initialize", "get_guilds", "get_guild_channels", "disconnect",
                  "ping", "bogus"}}

\* The callback in progress holds the MutexGuard of the list of Data t.
HoldsList(t) ==
  cbThread.kind = "fetch" /\ cbThread.t = t /\ cbThread.at \in {"locked", "flagged"}

IAccept(r) ==
  /\ ipc = "read"
  /\ r.id = inDecoded + 1
  /\ inDecoded' = inDecoded + 1
  /\ ireq' = r

IEmit(rsp) == iresp' = rsp /\ ipc' = "write"

\* "ping" and the `_` arm.
IPing(r) ==
  /\ r.command \in {"ping", "bogus"}
  /\ IAccept(r)
  /\ IEmit(IF r.command = "ping" THEN Ok(r, Res("pong", 1)) ELSE Fail(r, "Unknown"))
  /\ UNCHANGED <<STATE_, stateLock, inResp, client_ptr, ielapsed, iresult, bgpc, iclients,
                 itokens, icur, cbThread, freeThreaded, pumped, usedDropped, nReports,
                 mainVars, libVars, limitVars>>

\* init_cmd: args or token missing.
InitCmdReject(r) ==
  /\ r.command = "initialize" /\ r.args \in {"none", "empty"}
  /\ IAccept(r)
  /\ IEmit(Fail(r, IF r.args = "none" THEN "Missing args" ELSE "Missing token"))
  /\ UNCHANGED <<STATE_, stateLock, inResp, client_ptr, ielapsed, iresult, bgpc, iclients,
                 itokens, icur, cbThread, freeThreaded, pumped, usedDropped, nReports,
                 mainVars, libVars, limitVars>>

\* init_discord: Client_Init, SetApplicationId, SetStatusChangedCallback, then
\* CString::new(token) fails: Err("Invalid token"), the client is not dropped.
InitInvalidToken(r) ==
  /\ r.command = "initialize" /\ r.args = "nul"
  /\ IAccept(r)
  /\ iclients' = Put(iclients, FreshId(iclients),
                     [statusCb |-> TRUE, connected |-> FALSE, reported |-> 0])
  /\ IEmit(Fail(r, "Invalid token"))
  /\ UNCHANGED <<STATE_, stateLock, inResp, client_ptr, ielapsed, iresult, bgpc, itokens,
                 icur, cbThread, freeThreaded, pumped, usedDropped, nReports,
                 mainVars, libVars, limitVars>>

\* init_discord: Client_Init, SetApplicationId, SetStatusChangedCallback,
\* UpdateToken, and into the sleep of 100 ms.
InitDiscordStart(r) ==
  /\ r.command = "initialize" /\ r.args = "ok"
  /\ IAccept(r)
  /\ LET c == FreshId(iclients)
     IN /\ iclients' = Put(iclients, c,
                           [statusCb |-> TRUE, connected |-> FALSE, reported |-> 0])
        /\ client_ptr' = c
  /\ ipc' = "init_sleep"
  /\ UNCHANGED <<STATE_, stateLock, iresp, inResp, ielapsed, iresult, bgpc, itokens, icur,
                 cbThread, freeThreaded, pumped, usedDropped, nReports,
                 mainVars, libVars, limitVars>>

\* init_discord: Discord_Client_Connect after the sleep.
InitConnect ==
  /\ ipc = "init_sleep"
  /\ iclients' = [iclients EXCEPT ![client_ptr].connected = TRUE]
  /\ ipc' = "init_store"
  /\ UNCHANGED <<STATE_, stateLock, ireq, iresp, inDecoded, inResp, client_ptr, ielapsed,
                 iresult, bgpc, itokens, icur, cbThread, freeThreaded, pumped, usedDropped,
                 nReports, mainVars, libVars, limitVars>>

\* init_discord: `*guard = Some(State {client, token, status: 0, initialized:
\* true})` and Ok(()).
InitStore ==
  /\ ipc = "init_store"
  /\ stateLock = "free"
  /\ STATE_' = [some |-> TRUE, client |-> client_ptr, status |-> 0, initialized |-> TRUE]
  /\ client_ptr' = 0
  /\ IEmit(Ok(ireq, Res("status_initialized", 0)))
  /\ UNCHANGED <<stateLock, ireq, inDecoded, inResp, ielapsed, iresult, bgpc, iclients,
                 itokens, icur, cbThread, freeThreaded, pumped, usedDropped, nReports,
                 mainVars, libVars, limitVars>>

\* channels_cmd: args or guild_id missing or invalid.
ChannelsReject(r) ==
  /\ r.command = "get_guild_channels" /\ r.args \in {"none", "bad"}
  /\ IAccept(r)
  /\ IEmit(Fail(r, IF r.args = "none" THEN "Missing args" ELSE "Invalid guild_id"))
  /\ UNCHANGED <<STATE_, stateLock, inResp, client_ptr, ielapsed, iresult, bgpc, iclients,
                 itokens, icur, cbThread, freeThreaded, pumped, usedDropped, nReports,
                 mainVars, libVars, limitVars>>

\* guilds_cmd, channels_cmd: lock STATE, `Some(s) if s.initialized`, copy
\* s.client, drop the guard.
FetchCheck(r) ==
  /\ \/ r.command = "get_guilds"
     \/ r.command = "get_guild_channels" /\ r.args = "ok"
  /\ IAccept(r)
  /\ stateLock = "free"
  /\ IF STATE_.some /\ STATE_.initialized
     THEN /\ client_ptr' = STATE_.client
          /\ ipc' = IF r.command = "get_guilds" THEN "wait_conn" ELSE "fetch"
          /\ ielapsed' = 0
          /\ UNCHANGED iresp
     ELSE /\ IEmit(Fail(r, "Not initialized"))
          /\ UNCHANGED <<client_ptr, ielapsed>>
  /\ UNCHANGED <<STATE_, stateLock, inResp, iresult, bgpc, iclients, itokens, icur,
                 cbThread, freeThreaded, pumped, usedDropped, nReports,
                 mainVars, libVars, limitVars>>

\* guilds_cmd, "Wait for connection": one iteration (lock STATE, break when
\* status >= 1, else sleep 100 ms), or the 3 s have passed.
WaitConn ==
  /\ ipc = "wait_conn"
  /\ IF ielapsed >= 3 * MsPerSec
     THEN ipc' = "fetch" /\ UNCHANGED ielapsed
     ELSE /\ stateLock = "free"
          /\ IF STATE_.some /\ STATE_.status >= 1
             THEN ipc' = "fetch" /\ UNCHANGED ielapsed
             ELSE ielapsed' = ielapsed + 100 /\ UNCHANGED ipc
  /\ UNCHANGED <<STATE_, stateLock, ireq, iresp, inDecoded, inResp, client_ptr, iresult,
                 bgpc, iclients, itokens, icur, cbThread, freeThreaded, pumped,
                 usedDropped, nReports, mainVars, libVars, limitVars>>

\* Discord_Client_GetUserGuilds / GetGuildChannels on the copied client_ptr,
\* with the Box of a new Data as user data.
Fetch ==
  /\ ipc = "fetch"
  /\ usedDropped' = (usedDropped \/ client_ptr \notin DOMAIN iclients)
  /\ LET t == FreshId(itokens)
     IN /\ itokens' = Put(itokens, t, [client |-> client_ptr, reg |-> TRUE, done |-> FALSE,
                                        val |-> 0, held |-> TRUE, box |-> "live"])
        /\ icur' = t
  /\ ipc' = "poll"
  /\ ielapsed' = 0
  /\ UNCHANGED <<STATE_, stateLock, ireq, iresp, inDecoded, inResp, client_ptr, iresult,
                 bgpc, iclients, cbThread, freeThreaded, pumped, nReports,
                 mainVars, libVars, limitVars>>

\* "Wait for completion": `if *done.lock().unwrap() { break; }` then sleep
\* 50 ms; the loop ends at the flag or at its deadline.
IPoll ==
  /\ ipc = "poll"
  /\ IF \/ ielapsed >= (IF ireq.command = "get_guilds" THEN 3 ELSE 5) * MsPerSec
        \/ itokens[icur].done
     THEN ipc' = "after_loop" /\ UNCHANGED ielapsed
     ELSE ielapsed' = ielapsed + 50 /\ UNCHANGED ipc
  /\ UNCHANGED <<STATE_, stateLock, ireq, iresp, inDecoded, inResp, client_ptr, iresult,
                 bgpc, iclients, itokens, icur, cbThread, freeThreaded, pumped,
                 usedDropped, nReports, mainVars, libVars, limitVars>>

\* `let result = guilds.lock().unwrap().clone();`
IClone ==
  /\ ipc = "after_loop"
  /\ ~HoldsList(icur)
  /\ iresult' = itokens[icur].val
  /\ ipc' = "check"
  /\ UNCHANGED <<STATE_, stateLock, ireq, iresp, inDecoded, inResp, client_ptr, ielapsed,
                 bgpc, iclients, itokens, icur, cbThread, freeThreaded, pumped,
                 usedDropped, nReports, mainVars, libVars, limitVars>>

\* `if !*done.lock().unwrap()` -> "Timeout", else the cloned list; the
\* handler's Arcs are dropped.
ICheck ==
  /\ ipc = "check"
  /\ IEmit(IF itokens[icur].done
           THEN Ok(ireq, Res(IF ireq.command = "get_guilds" THEN "guilds" ELSE "channels",
                             iresult))
           ELSE Fail(ireq, "Timeout"))
  /\ itokens' = IF itokens[icur].reg THEN [itokens EXCEPT ![icur].held = FALSE]
                ELSE Drop(itokens, {icur})
  /\ icur' = 0
  /\ client_ptr' = 0
  /\ UNCHANGED <<STATE_, stateLock, ireq, inDecoded, inResp, ielapsed, iresult, bgpc,
                 iclients, cbThread, freeThreaded, pumped, usedDropped, nReports,
                 mainVars, libVars, limitVars>>

\* disconnect_cmd: `if let Ok(mut guard) = STATE.lock()`.
DisconnectLock(r) ==
  /\ r.command = "disconnect"
  /\ IAccept(r)
  /\ stateLock = "free"
  /\ stateLock' = "cmd"
  /\ ipc' = "disc"
  /\ UNCHANGED <<STATE_, iresp, inResp, client_ptr, ielapsed, iresult, bgpc, iclients,
                 itokens, icur, cbThread, freeThreaded, pumped, usedDropped, nReports,
                 mainVars, libVars, limitVars>>

\* disconnect_cmd that drops the client and leaves STATE as it was.
DisconnectDropKeepsState ==
  /\ ipc = "disc"
  /\ LET c == STATE_.client
     IN IF STATE_.some /\ c # 0
        THEN /\ usedDropped' = (usedDropped \/ c \notin DOMAIN iclients)
             /\ iclients' = Drop(iclients, {c})
             /\ itokens' = Drop(itokens, {t \in DOMAIN itokens :
                                            itokens[t].client = c /\ ~HoldsList(t)})
        ELSE UNCHANGED <<usedDropped, iclients, itokens>>
  /\ stateLock' = "free"
  /\ IEmit(Ok(ireq, Res("status_disconnected", 0)))
  /\ UNCHANGED <<STATE_, ireq, inDecoded, inResp, client_ptr, ielapsed, iresult, bgpc,
                 icur, cbThread, freeThreaded, pumped, nReports, mainVars, libVars,
                 limitVars>>

\* disconnect_cmd: guard.take(), Discord_Client_Drop on the client it held
\* (the service runs the free functions of what is registered on it and not
\* running), the guard is dropped, {"status": "disconnected"}.
DisconnectDrop ==
  /\ ipc = "disc"
  /\ LET c == STATE_.client
     IN IF STATE_.some /\ c # 0
        THEN /\ usedDropped' = (usedDropped \/ c \notin DOMAIN iclients)
             /\ iclients' = Drop(iclients, {c})
             /\ itokens' = Drop(itokens, {t \in DOMAIN itokens :
                                            itokens[t].client = c /\ ~HoldsList(t)})
        ELSE UNCHANGED <<usedDropped, iclients, itokens>>
  /\ STATE_' = NoneState
  /\ stateLock' = "free"
  /\ IEmit(Ok(ireq, Res("status_disconnected", 0)))
  /\ UNCHANGED <<ireq, inDecoded, inResp, client_ptr, ielapsed, iresult, bgpc, icur,
                 cbThread, freeThreaded, pumped, nReports, mainVars, libVars, limitVars>>

\* main: the Response is written and the loop takes the next line.
IWrite ==
  /\ ipc = "write"
  /\ inResp' = inResp + 1
  /\ ipc' = "read"
  /\ ireq' = NoReq /\ iresp' = NoResp /\ iresult' = NotFetched
  /\ UNCHANGED <<STATE_, stateLock, inDecoded, client_ptr, ielapsed, bgpc, iclients,
                 itokens, icur, cbThread, freeThreaded, pumped, usedDropped, nReports,
                 mainVars, libVars, limitVars>>

\* main: the input has ended, main returns and the process exits with its
\* threads.
IEndOfInput ==
  /\ ipc = "read"
  /\ ipc' = "exited"
  /\ UNCHANGED <<STATE_, stateLock, ireq, iresp, inDecoded, inResp, client_ptr, ielapsed,
                 iresult, bgpc, iclients, itokens, icur, cbThread, freeThreaded, pumped,
                 usedDropped, nReports, mainVars, libVars, limitVars>>

\* Background thread: `unsafe { Discord_RunCallbacks(); }` is entered.
BgPumpEnter ==
  /\ ipc # "exited"
  /\ bgpc = "pump"
  /\ bgpc' = "pumping"
  /\ pumped' = TRUE
  /\ UNCHANGED <<STATE_, stateLock, ipc, ireq, iresp, inDecoded, inResp, client_ptr,
                 ielapsed, iresult, iclients, itokens, icur, cbThread, freeThreaded,
                 usedDropped, nReports, mainVars, libVars, limitVars>>

\* Background thread: Discord_RunCallbacks returns.
BgPumpReturn ==
  /\ ipc # "exited"
  /\ bgpc = "pumping"
  /\ cbThread.on # "bg"
  /\ bgpc' = "lock"
  /\ UNCHANGED <<STATE_, stateLock, ipc, ireq, iresp, inDecoded, inResp, client_ptr,
                 ielapsed, iresult, iclients, itokens, icur, cbThread, freeThreaded,
                 pumped, usedDropped, nReports, mainVars, libVars, limitVars>>

\* Background thread: `if let Ok(guard) = STATE.lock()`.
BgLock ==
  /\ ipc # "exited"
  /\ bgpc = "lock"
  /\ stateLock = "free"
  /\ stateLock' = "bg"
  /\ bgpc' = "locked"
  /\ UNCHANGED <<STATE_, ipc, ireq, iresp, inDecoded, inResp, client_ptr, ielapsed,
                 iresult, iclients, itokens, icur, cbThread, freeThreaded, pumped,
                 usedDropped, nReports, mainVars, libVars, limitVars>>

\* The background thread releases nothing: the guard of STATE is kept over
\* the sleep.
BgGetStatusKeepsGuard ==
  /\ ipc # "exited"
  /\ bgpc = "locked"
  /\ usedDropped' = (usedDropped \/ (STATE_.some /\ STATE_.client # 0
                                      /\ STATE_.client \notin DOMAIN iclients))
  /\ bgpc' = "sleep"
  /\ UNCHANGED <<STATE_, stateLock, ipc, ireq, iresp, inDecoded, inResp, client_ptr,
                 ielapsed, iresult, iclients, itokens, icur, cbThread, freeThreaded,
                 pumped, nReports, mainVars, libVars, limitVars>>

\* Background thread: Discord_Client_GetStatus on state.client when there is
\* one, then the guard is dropped.
BgGetStatus ==
  /\ ipc # "exited"
  /\ bgpc = "locked"
  /\ usedDropped' = (usedDropped \/ (STATE_.some /\ STATE_.client # 0
                                      /\ STATE_.client \notin DOMAIN iclients))
  /\ stateLock' = "free"
  /\ bgpc' = "sleep"
  /\ UNCHANGED <<STATE_, ipc, ireq, iresp, inDecoded, inResp, client_ptr, ielapsed,
                 iresult, iclients, itokens, icur, cbThread, freeThreaded, pumped,
                 nReports, mainVars, libVars, limitVars>>

\* Background thread: thread::sleep(10 ms) and round the loop.
BgSleep ==
  /\ ipc # "exited"
  /\ bgpc = "sleep"
  /\ bgpc' = "pump"
  /\ UNCHANGED <<STATE_, stateLock, ipc, ireq, iresp, inDecoded, inResp, client_ptr,
                 ielapsed, iresult, iclients, itokens, icur, cbThread, freeThreaded,
                 pumped, usedDropped, nReports, mainVars, libVars, limitVars>>

\* The thread `on` may run a callback now.
CanRun(on) == ipc # "exited" /\ cbThread = NoCallback /\ (on = "bg" => bgpc = "pumping")

\* The service calls status_cb(s) for a connected client.
StatusCbEnter(c, s, on) ==
  /\ CanRun(on)
  /\ nReports < MaxStatusReports
  /\ c \in DOMAIN iclients /\ iclients[c].statusCb /\ iclients[c].connected
  /\ cbThread' = [kind |-> "status", on |-> on, c |-> c, s |-> s, t |-> 0, at |-> "wait"]
  /\ nReports' = nReports + 1
  /\ UNCHANGED <<STATE_, stateLock, ipc, ireq, iresp, inDecoded, inResp, client_ptr,
                 ielapsed, iresult, bgpc, iclients, itokens, icur, freeThreaded, pumped,
                 usedDropped, mainVars, libVars, limitVars>>

\* status_cb: `if let Ok(mut g) = STATE.lock() { if let Some(s) = &mut *g
\* { s.status = status; } }` and return.
StatusCbWrite ==
  /\ ipc # "exited"
  /\ cbThread.kind = "status"
  /\ stateLock = "free"
  /\ STATE_' = IF STATE_.some THEN [STATE_ EXCEPT !.status = cbThread.s] ELSE STATE_
  /\ iclients' = IF cbThread.c \in DOMAIN iclients
                 THEN [iclients EXCEPT ![cbThread.c].reported = cbThread.s]
                 ELSE iclients
  /\ cbThread' = NoCallback
  /\ UNCHANGED <<stateLock, ipc, ireq, iresp, inDecoded, inResp, client_ptr, ielapsed,
                 iresult, bgpc, itokens, icur, freeThreaded, pumped, usedDropped, nReports,
                 mainVars, libVars, limitVars>>

\* cb of guilds_cmd / channels_cmd is entered: lock the list, push the n
\* items of the span.
FetchCbEnter(t, n, on) ==
  /\ CanRun(on)
  /\ t \in DOMAIN itokens /\ itokens[t].reg
  /\ itokens[t].client \in DOMAIN iclients
  /\ itokens' = [itokens EXCEPT ![t].val = n]
  /\ cbThread' = [kind |-> "fetch", on |-> on, c |-> itokens[t].client, s |-> 0,
                  t |-> t, at |-> "locked"]
  /\ UNCHANGED <<STATE_, stateLock, ipc, ireq, iresp, inDecoded, inResp, client_ptr,
                 ielapsed, iresult, bgpc, iclients, icur, freeThreaded, pumped,
                 usedDropped, nReports, mainVars, libVars, limitVars>>

\* cb: `*data.done.lock().unwrap() = true;`, the list still locked.
FetchCbSetDone ==
  /\ ipc # "exited"
  /\ cbThread.kind = "fetch" /\ cbThread.at = "locked"
  /\ itokens' = [itokens EXCEPT ![cbThread.t].done = TRUE]
  /\ cbThread' = [cbThread EXCEPT !.at = "flagged"]
  /\ UNCHANGED <<STATE_, stateLock, ipc, ireq, iresp, inDecoded, inResp, client_ptr,
                 ielapsed, iresult, bgpc, iclients, icur, freeThreaded, pumped,
                 usedDropped, nReports, mainVars, libVars, limitVars>>

\* cb returns (the guard of the list is dropped) and the service calls free.
FetchCbReturn ==
  /\ ipc # "exited"
  /\ cbThread.kind = "fetch" /\ cbThread.at = "flagged"
  /\ LET t == cbThread.t
     IN itokens' = IF itokens[t].held
                   THEN [itokens EXCEPT ![t].reg = FALSE, ![t].box = "freed"]
                   ELSE Drop(itokens, {t})
  /\ cbThread' = NoCallback
  /\ UNCHANGED <<STATE_, stateLock, ipc, ireq, iresp, inDecoded, inResp, client_ptr,
                 ielapsed, iresult, bgpc, iclients, icur, freeThreaded, pumped,
                 usedDropped, nReports, mainVars, libVars, limitVars>>

\* The steps of the command thread inside a handler.
HandlerStep ==
  \/ InitConnect
  \/ InitStore
  \/ WaitConn
  \/ Fetch
  \/ IPoll
  \/ IClone
  \/ ICheck
  \/ DisconnectDrop

ImprovedNext ==
  \/ \E r \in ImprovedRequest : IPing(r)
  \/ \E r \in ImprovedRequest : InitCmdReject(r)
  \/ \E r \in ImprovedRequest : InitInvalidToken(r)
  \/ \E r \in ImprovedRequest : InitDiscordStart(r)
  \/ \E r \in ImprovedRequest : ChannelsReject(r)
  \/ \E r \in ImprovedRequest : FetchCheck(r)
  \/ \E r \in ImprovedRequest : DisconnectLock(r)
  \/ HandlerStep
  \/ IWrite
  \/ IEndOfInput
  \/ BgPumpEnter
  \/ BgPumpReturn
  \/ BgLock
  \/ BgGetStatus
  \/ BgSleep
  \/ \E c \in DOMAIN iclients, s \in 0..2, on \in {"bg", "svc"} : StatusCbEnter(c, s, on)
  \/ \E t \in DOMAIN itokens, n \in 0..1, on \in {"bg", "svc"} : FetchCbEnter(t, n, on)
  \/ StatusCbWrite
  \/ FetchCbSetDone
  \/ FetchCbReturn

SpecImproved == Init /\ [][ImprovedNext]_vars

\* ------------------------------------------------------------------ lib.rs
\* The exported C functions over DiscordClientWrapper.  The host passes
\* null (0) or a handle create_discord_client gave it and it has not
\* destroyed; the native library answers a call with any c_int.
LibCalls == {"client_connect", "client_disconnect", "client_run_callbacks"}

NativeResults == {-2147483647 - 1, -1, 0, 1, 2147483647}

\* The exported function returns the native result as it came.
ExportedResultRaw(nret) == nret

\* DiscordClientWrapper::connect / disconnect / run_callbacks (`result != 0`
\* -> Err(SdkError)) under the match of the exported function (Ok -> 0,
\* Err -> -1).
ExportedResult(nret) == IF nret # 0 THEN -1 ELSE 0

\* create_discord_client: DiscordClientWrapper::new, where the native create
\* returns a client (made = TRUE) or null, then Box::into_raw or null.
CreateDiscordClient(made) ==
  /\ nCreated < MaxLibClients
  /\ nCreated' = nCreated + 1
  /\ IF made
     THEN LET h == FreshId(wrappers)
              n == nCreated + 1
          IN /\ wrappers' = Put(wrappers, h, [client |-> n])
             /\ natives' = Put(natives, n, [destroyed |-> 0, calls |-> 0])
             /\ lcall' = [fn |-> "create_discord_client", handle |-> 0, called |-> TRUE,
                          nret |-> n, ret |-> h]
     ELSE /\ lcall' = [fn |-> "create_discord_client", handle |-> 0, called |-> TRUE,
                       nret |-> 0, ret |-> 0]
          /\ UNCHANGED <<wrappers, natives>>
  /\ UNCHANGED <<mainVars, improvedVars, limitVars>>

\* destroy_discord_client: nothing for null, else the Box is dropped and Drop
\* for DiscordClientWrapper destroys the native client if the pointer is set.
DestroyDiscordClient(h) ==
  /\ h \in {0} \cup DOMAIN wrappers
  /\ IF h = 0
     THEN UNCHANGED <<wrappers, natives>>
     ELSE LET n == wrappers[h].client
          IN /\ natives' = IF n # 0
                           THEN [natives EXCEPT ![n].destroyed = @ + 1]
                           ELSE natives
             /\ wrappers' = Drop(wrappers, {h})
  /\ lcall' = [fn |-> "destroy_discord_client", handle |-> h, called |-> h # 0,
               nret |-> 0, ret |-> 0]
  /\ UNCHANGED <<nCreated, mainVars, improvedVars, limitVars>>

\* client_connect, client_disconnect, client_run_callbacks: -1 for null, else
\* the method of the wrapper, whose native call answers nret.
ClientCall(fn, h, nret) ==
  /\ h \in {0} \cup DOMAIN wrappers
  /\ IF h = 0
     THEN /\ lcall' = [fn |-> fn, handle |-> 0, called |-> FALSE, nret |-> 0, ret |-> -1]
          /\ UNCHANGED natives
     ELSE /\ natives' = [natives EXCEPT ![wrappers[h].client].calls = 1]
          /\ lcall' = [fn |-> fn, handle |-> h, called |-> TRUE, nret |-> nret,
                       ret |-> ExportedResult(nret)]
  /\ UNCHANGED <<wrappers, nCreated, mainVars, improvedVars, limitVars>>

LibNext ==
  \/ \E made \in BOOLEAN : CreateDiscordClient(made)
  \/ \E h \in {0} \cup DOMAIN wrappers : DestroyDiscordClient(h)
  \/ \E fn \in LibCalls, h \in {0} \cup DOMAIN wrappers, nret \in NativeResults :
       ClientCall(fn, h, nret)

SpecLib == Init /\ [][LibNext]_vars

\* ------------------------------------------- the limit of the fetch handlers
\* `args.get("limit").and_then(|v| v.as_i64()).unwrap_or(50) as i32` of
\* get_lobby_messages and get_user_messages.  A 64-bit integer is its four
\* 16-bit limbs <<l3, l2, l1, l0>>, most significant first: two's complement
\* for kind "int" (what serde_json holds as i64, or as u64 up to i64::MAX),
\* unsigned for kind "uint" (a JSON integer above i64::MAX).
LimbBase == 65536

\* The args tried: no limit, a value that is no integer, and the integers
\* whose limbs are drawn from the values around 0, 2^15 and 2^16.
LimitArgs ==
  LET Limbs == [1..4 -> {0, 1, 50, 32767, 32768, 65535}]
  IN {Absent, [kind |-> "text", v |-> <<0, 0, 0, 0>>]}
       \cup [kind : {"int"}, v : Limbs]
       \cup [kind : {"uint"}, v : {l \in Limbs : l[1] >= 32768}]

\* Value::as_i64: Some for an integer that fits i64, None for anything else.
AsI64(arg) ==
  IF arg.kind = "int" THEN [some |-> TRUE, v |-> arg.v]
  ELSE [some |-> FALSE, v |-> <<0, 0, 0, 0>>]

\* `as i32`: the low 32 bits, read as two's complement.
AsI32(l) ==
  IF l[3] >= 32768 THEN (l[3] - LimbBase) * LimbBase + l[4]
  ELSE l[3] * LimbBase + l[4]

\* `.and_then(|v| v.as_i64()).unwrap_or(50) as i32`
LimitOf(arg) ==
  LET opt == AsI64(arg)
  IN AsI32(IF opt.some THEN opt.v ELSE <<0, 0, 0, 50>>)

\* The 64-bit integer an i32 stands for (sign extension).
Widen(n) ==
  IF n >= 0 THEN <<0, 0, n \div LimbBase, n % LimbBase>>
  ELSE LET m == (n + 2147483647) + 1
       IN <<65535, 65535, 32768 + (m \div LimbBase), m % LimbBase>>

\* The handler computes `limit` from the args of its Request.
ParseLimit ==
  /\ ~limit.set
  /\ limit' = [set |-> TRUE, v |-> LimitOf(limitArg)]
  /\ UNCHANGED <<lcmd, limitArg, mainVars, improvedVars, libVars>>

LimitInit ==
  /\ MainInit /\ ImprovedInit /\ LibInit
  /\ lcmd \in {"get_lobby_messages", "get_user_messages"}
  /\ limitArg \in LimitArgs
  /\ limit = NotParsed

SpecLimit == LimitInit /\ [][ParseLimit]_vars

\* ================================================================= claims
\* handle_command has returned: resp is the Response of req, about to be
\* written.
Answering == pc = "write"

\* The command thread is not inside handle_command.
AtRest == pc \in {"read", "exited", "aborted"}

\* C1: every line that decodes as a Command gets exactly one Response, and
\* that Response carries the id of the Command: once the command thread is
\* out of handle_command as many Responses have been written as Requests were
\* decoded, and the Response handed to main bears the id of its Request.
C1_OneResponsePerCommand ==
  /\ AtRest => nResp = nDecoded
  /\ Answering => resp.id = req.id /\ nResp + 1 = nDecoded

\* C2: no pipelining and Responses in the order of their Commands: at most one
\* Request is outstanding, it is the last one decoded, no line is taken from
\* stdin while it is outstanding, and the Response being written is the
\* Response of Request number nResp + 1.
C2_InOrder ==
  /\ nDecoded \in {nResp, nResp + 1}
  /\ nDecoded = nResp + 1 => req.id = nDecoded /\ line = "request"
  /\ Answering => resp.id = nResp + 1
  /\ pc = "read" => nDecoded = nResp

\* C2 witness: the Response of the second Command is being written after the
\* Response of the first one has been written.
C2_Witness == Answering /\ nResp = 1 /\ resp.id = 2

\* C3: a blank line, and a line that does not decode as a Command, produces no
\* Response and leaves the session as it was: the step that takes such a line
\* changes nothing but the record of the line read.
C3_SkippedLine ==
  [][(pc = "read" /\ line' \in {"blank", "garbage", "noid"})
       => /\ nResp' = nResp /\ nDecoded' = nDecoded /\ pc' = "read"
          /\ UNCHANGED <<session, CURRENT_STATUS, MESSAGE_EVENTS, clients, tokens>>]_vars

\* C3 witness: an undecodable line was taken in a Ready session that had
\* answered one Command, and still one Response has been written.
C3_Witness ==
  /\ pc = "read" /\ line \in {"blank", "garbage", "noid"}
  /\ INITIALIZED /\ CLIENT_PTR # 0 /\ nResp = 1

\* C4: the command loop ends only when the input stream closes.
C4_EndsOnlyOnInputClosure == pc = "exited" => line = "eof"

\* The messages of the state checks of handle_command.
StateErrors == {NotInit, "Client not initialized"}

\* The args of r hold every field the branch of r.command looks up, valid.
WellFormed(r) == r.args = "ok" \/ ArgsOf(r.command) = {"none"}

C6_TimeoutIsFailure ==
  (Answering /\ req.command \in PollCommands /\ loopExit = "expired")
    => ~resp.success /\ resp.error \in TimeoutErrors

\* C7: when the callback never fires, a polling handler with deadline D and
\* sleep I returns a failure Response, no sooner than D and no later than
\* D + I after the operation was started.
C7_TimeoutWindow ==
  (Answering /\ req.command \in PollCommands /\ loopExit = "expired"
     /\ svcOutcome = "none")
    => /\ ~resp.success
       /\ elapsed >= Deadline(req.command)
       /\ elapsed <= Deadline(req.command) + Interval(req.command)

C9_ServiceFailureIsFailure ==
  (Answering /\ svcOutcome = "fail") => ~resp.success

\* The commands the catalogue gives a required argument, and the arg shapes
\* that lack it or hold an invalid value for it.
RequiresArgs ==
  {"initialize", "get_guild_channels", "send_message", "send_lobby_message", "send_dm",
   "get_lobby_messages", "get_user_messages", "get_message", "create_lobby",
   "create_or_join_lobby", "leave_lobby", "set_mute", "set_deaf", "connect_lobby_voice",
   "disconnect_lobby_voice", "set_activity"}

LacksRequired(r) ==
  /\ r.command \in RequiresArgs
  /\ r.args \in {"none", "empty", "bad", "partial", "nul"}

\* C10: a command whose required argument is missing or invalid is answered
\* success=false at once, and no function of the native library is called for
\* it, in every session state.
C10_ValidationBeforeService ==
  (Answering /\ LacksRequired(req)) => ~resp.success /\ ~called /\ loopExit = "none"

\* C11: initialize returns success, and marks the session Ready, only if during
\* that same call the service reported a status at or above the ready
\* threshold for the client that call created.
C11_ReadyOnlyWhenReported ==
  (Answering /\ req.command = "initialize" /\ resp.success)
    => INITIALIZED /\ readyReported

\* C12: when during initialize the status regressed from connected (2) to
\* uninitialized (0) and the ready-wait loop ran to its deadline without
\* reading a status >= 3, initialize is answered success=false and the session
\* is not marked initialized.
C12_RegressionIsFailure ==
  (Answering /\ req.command = "initialize" /\ regressed /\ loopExit = "expired")
    => ~resp.success /\ ~INITIALIZED

C14_AtMostOneClient == Cardinality(DOMAIN clients) <= 1

\* C15: disconnect, in any session state, is answered success with status
\* "disconnected" and leaves no client handle, no stored token and the
\* initialized flag false; the native client behind the handle is live and is
\* dropped by this step when a handle was stored, and no client is dropped
\* when none was.
C15_DisconnectTearsDown ==
  [][(req'.command = "disconnect" /\ resp' # resp)
       => /\ resp' = Ok(req', Res("status_disconnected", 0))
          /\ CLIENT_PTR' = 0 /\ ~TOKEN' /\ ~INITIALIZED'
          /\ IF CLIENT_PTR # 0
             THEN CLIENT_PTR \in DOMAIN clients /\ clients' = Drop(clients, {CLIENT_PTR})
             ELSE clients' = clients]_vars

\* C15 witness: the second Command is a disconnect that found a handle stored
\* (a native call was made for it) after the service had reported ready, and
\* no client is left.
C15_Witness ==
  /\ Answering /\ req.command = "disconnect" /\ req.id = 2 /\ called
  /\ CURRENT_STATUS = DISCORD_CLIENT_STATUS_READY
  /\ CLIENT_PTR = 0 /\ ~TOKEN /\ ~INITIALIZED /\ clients = <<>>

\* C16: between commands, a session marked initialized has a client handle
\* stored, and the handle is the address of a live native client.
C16_ReadyHasHandle ==
  (pc = "read" /\ INITIALIZED) => (CLIENT_PTR # 0 /\ CLIENT_PTR \in DOMAIN clients)

\* C16 witness: between commands the session is marked initialized and the
\* handle stored is the one a second initialize installed.
C16_Witness == pc = "read" /\ INITIALIZED /\ CLIENT_PTR = 2 /\ nResp = 2

\* C17: between commands, a session not marked initialized has no client
\* handle and no stored token, after a failed initialize included.
C17_UninitializedHasNoHandle ==
  (pc = "read" /\ ~INITIALIZED) => (CLIENT_PTR = 0 /\ ~TOKEN)

\* C18: no step taken for a command other than initialize and disconnect,
\* from the decoding of its line to the writing of its Response, changes the
\* client handle, the stored token or the initialized flag.
C18_SessionFrame ==
  [][(\/ req.command \in Commands \ {"initialize", "disconnect"}
      \/ req'.command \in Commands \ {"initialize", "disconnect"})
       => UNCHANGED session]_vars

\* C18 witness: send_message timed out in a Ready session, and the session is
\* still Ready.
C18_Witness ==
  /\ Answering /\ req.command = "send_message" /\ loopExit = "expired" /\ ~resp.success
  /\ INITIALIZED /\ CLIENT_PTR # 0 /\ TOKEN

\* C19: ping is answered success=true with result {pong: true} and no error,
\* in every session state and whatever came before it.
C19_PingAlwaysPongs ==
  (Answering /\ req.command = "ping") => resp = Ok(req, Res("pong", 1))

\* C19 witness: a ping answered as the second Command, in a session the first
\* Command made Ready.
C19_Witness ==
  /\ Answering /\ req.command = "ping" /\ req.id = 2 /\ INITIALIZED
  /\ resp.success /\ resp.result = Res("pong", 1)

\* C20: a Command whose name is not in the handler table is answered, in the
\* step that decodes it, success=false with the unknown-command error and the
\* id of the Command; and no step taken for it changes the session, the
\* status, the event queue, the native clients or the Completion Tokens.
C20_UnknownCommand ==
  [][/\ (req'.command = "bogus" /\ req' # req)
          => (pc' = "write" /\ resp' = Fail(req', "Unknown") /\ resp'.id = req'.id)
     /\ (req.command = "bogus" \/ req'.command = "bogus")
          => UNCHANGED <<session, CURRENT_STATUS, MESSAGE_EVENTS, clients, tokens, memfault>>]_vars

\* C20 witness: an unknown Command answered as the second Command of a Ready
\* session, which is still Ready.
C20_Witness ==
  /\ Answering /\ req.command = "bogus" /\ req.id = 2 /\ resp.id = 2
  /\ ~resp.success /\ resp.error = "Unknown" /\ INITIALIZED /\ CLIENT_PTR # 0

\* C21: get_message_events drains the queue.  Every event on_message_created
\* recorded is, in recording order, either in a Response already built, in
\* the local list of the handler that has drained and not yet built its
\* Response, or still in MESSAGE_EVENTS: none is lost, none is returned twice, also when the
\* callback runs between the drain and the Response.  The Response carries
\* exactly the drained list (empty when nothing arrived since the last drain).
C21_DrainExactlyOnce ==
  /\ delivered \o (IF resp = NoResp THEN events ELSE <<>>) \o MESSAGE_EVENTS
       = [i \in 1..nEvents |-> i]
  /\ (Answering /\ req.command = "get_message_events")
       => resp = Ok(req, Res("messages", events))

\* The second event arrived while the handler held the first one drained.
C21_Witness ==
  /\ Answering /\ req.command = "get_message_events"
  /\ events = <<1>> /\ delivered = <<1>> /\ MESSAGE_EVENTS = <<2>>

\* C27: with the callbacks on a service thread, a fetch handler that answers
\* success answers with the list the callback collected.
C27_SuccessPayloadComplete ==
  [][(pc # "write" /\ pc' = "write" /\ req.command \in FetchCommands /\ resp'.success)
       => resp'.result.data = tokens[cur].val]_vars

C23_OnlyInitializeAsStated ==
  [][(resp' # resp /\ resp' # NoResp /\ ~INITIALIZED /\ req'.command # "initialize")
       => ~resp'.success]_vars

\* The commands that do not look at the session.
SessionFree == {"ping", "disconnect", "get_message_events"}

\* C23 amended: while the session is not initialized, initialize is the only
\* session-changing or session-using command that can be accepted: ping,
\* disconnect and get_message_events are answered with success as in every
\* state, and every other command gets a failure Response.
C23_OnlyInitializeOrSessionFree ==
  [][(resp' # resp /\ resp' # NoResp /\ ~INITIALIZED /\ req'.command # "initialize")
       => (resp'.success <=> req'.command \in SessionFree)]_vars

\* A drain of the event queue answered with success before any initialize.
C23_Witness ==
  /\ Answering /\ req.command = "get_message_events" /\ req.id = 1 /\ resp.success
  /\ ~INITIALIZED /\ CLIENT_PTR = 0 /\ clients = <<>>

\* C24: no success result carries a service-assigned identifier as a JSON
\* number.
C24_IdsAreStrings ==
  (Answering /\ resp.success) => IdEncoding(resp.result.kind) # "number"

\* C25: an initialize that carries a token and no app_id is not rejected for
\* the missing app_id.
C25_AppIdOptional ==
  (Answering /\ req.command = "initialize" /\ req.args = "noappid")
    => resp.error # "No application ID provided"

C28_LeavesAtFirstDone ==
  [][(pc \in {"poll", "sync"} /\ pc' = pc /\ elapsed' # elapsed)
       => (pc = "poll" /\ ~tokens[cur].done)]_vars

\* C29: in a ready-wait loop, a poll that reads status 0 right after a poll
\* that read status 2 sets error_4004_seen.
C29_RegressionSets4004 ==
  [][(pc \in ReadyLoops /\ pc' = pc /\ elapsed' # elapsed
        /\ last_status = 2 /\ CURRENT_STATUS = 0)
       => error_4004_seen']_vars

\* C30: in every session that a successful initialize opened, by either path,
\* the message-created callback is registered on the session's client.
C30_MessageCallbackRegistered ==
  (pc = "read" /\ INITIALIZED /\ CLIENT_PTR \in DOMAIN clients)
    => clients[CLIENT_PTR].messageCb

\* ------------------------------------------------- claims on main_improved.rs
\* C31: in a binary whose callbacks are pumped or delivered off the command
\* thread, Discord_SetFreeThreaded has been declared before the first native
\* call that registers a callback or pumps callbacks.
C31_DeclaredBeforeUse ==
  (pumped \/ \E c \in DOMAIN iclients : iclients[c].statusCb) => freeThreaded

\* Scheduling of main_improved.rs: a thread that can run does run; the
\* background thread sleeps 10 ms outside the guard of STATE in every round,
\* so a handler waiting for STATE gets it; a callback that has started runs
\* to its return.
SpecImprovedFair ==
  /\ SpecImproved
  /\ SF_vars(HandlerStep)
  /\ WF_vars(BgGetStatus)
  /\ WF_vars(FetchCbSetDone \/ FetchCbReturn)

C33_StatusNotLost ==
  (ipc = "read" /\ cbThread = NoCallback /\ STATE_.some
     /\ STATE_.client \in DOMAIN iclients)
    => STATE_.status = iclients[STATE_.client].reported

\* C34: no native call of main_improved.rs (GetStatus of the background
\* thread, GetUserGuilds / GetGuildChannels of the handlers, Client_Drop)
\* receives a client handle that disconnect has dropped.
C34_NoDroppedHandle == ~usedDropped

\* disconnect has dropped a connected client and the background thread is in
\* its section under the guard of STATE.
C34_Witness ==
  /\ ipc = "write" /\ ireq.command = "disconnect" /\ iresp.success
  /\ nReports >= 1 /\ iclients = <<>> /\ STATE_ = NoneState
  /\ bgpc = "locked" /\ stateLock = "bg"

\* ----------------------------------------------------- claims on Responses
\* C35: every Response emitted has exactly one of result and error:
\* success = true comes with a result and a null error, success = false
\* with a null result and an error string.
C35_ExactlyOneOfResultError ==
  (resp # NoResp) =>
    IF resp.success
    THEN resp.result # NoResult /\ resp.error = "null"
    ELSE resp.result = NoResult /\ resp.error # "null"

\* A poll loop has run to its deadline and the timeout Response is about to
\* be written.
C35_Witness ==
  /\ Answering /\ req.command = "send_message" /\ ~resp.success
  /\ resp.error = TimeoutError("send_message") /\ resp.result = NoResult

\* ----------------------------------------------------------- claims on lib.rs
\* C36: client_connect, client_disconnect and client_run_callbacks return -1
\* without a native call for a null handle, and otherwise 0 exactly when the
\* native call returned 0 and -1 for every other native result;
\* create_discord_client returns null exactly when the native create did;
\* the native client of a wrapper is destroyed exactly once, when the
\* wrapper is dropped.
C36_ExportedFunctions ==
  /\ (lcall.fn \in LibCalls /\ lcall.handle = 0) => (~lcall.called /\ lcall.ret = -1)
  /\ (lcall.fn \in LibCalls /\ lcall.handle # 0) =>
       /\ lcall.called
       /\ lcall.ret = 0 <=> lcall.nret = 0
       /\ lcall.nret # 0 => lcall.ret = -1
  /\ lcall.fn = "create_discord_client" => (lcall.ret = 0 <=> lcall.nret = 0)
  /\ \A n \in DOMAIN natives :
       /\ natives[n].destroyed <= 1
       /\ natives[n].destroyed = 1 <=> ~\E h \in DOMAIN wrappers : wrappers[h].client = n

\* One wrapper has been dropped, and a call on the other got a native error.
C36_Witness ==
  /\ lcall.fn = "client_connect" /\ lcall.handle # 0 /\ lcall.called
  /\ lcall.nret = 1 /\ lcall.ret = -1
  /\ \E n \in DOMAIN natives : natives[n].destroyed = 1

\* -------------------------------------------------------- claims on the limit
\* C37: for get_lobby_messages and get_user_messages the limit handed to the
\* service is the integer given in args, for every 64-bit integer, and is 50
\* when args has no limit.
C37_LimitAsGiven ==
  limit.set =>
    /\ limitArg.kind = "absent" => limit.v = 50
    /\ limitArg.kind \in {"int", "uint"} =>
         (limitArg.kind = "int" /\ Widen(limit.v) = limitArg.v)

====
